---- MODULE Spec2Model ----
(***************************************************************************)
(* Generation orchestration core of the AI comic creator.                  *)
(*                                                                         *)
(* The repository holds several revisions of the same two files: the       *)
(* orchestrator (App.tsx, two revisions) and the service module            *)
(* (geminiService.ts and four earlier revisions kept under src/unnamed).   *)
(* A build pairs one orchestrator revision with one service revision; the  *)
(* model carries the pair in the variable `build` and every operation      *)
(* dispatches on it.                                                       *)
(*                                                                         *)
(* Text is modelled as a sequence of tokens.  Image prompts coming from    *)
(* the backend are sequences of one-character tokens, so that the          *)
(* case-insensitive substring search of the orchestrator is computed, not  *)
(* assumed; fixed pieces of text added by the code are single tokens.      *)
(***************************************************************************)
EXTENDS Integers, Sequences, FiniteSets, TLC

VARIABLES
    build,        \* <<orchestrator revision, service revision>>
    apiKey,       \* App state: the credential typed by the user
    comicPanels,  \* App state: the published PanelRecord list
    error,        \* App state: run-level message log, one line per element
                  \* (<<>> is null)
    progress,     \* App state: GenerationProgress snapshot
    isLoading,    \* App state: loading flag
    timers,       \* pending setTimeout(() => setIsLoading(false), 2000)
    pc,           \* position of handleComicGeneration
    options,      \* the StoryInputOptions of the current run
    characterDescriptions, \* local: result of the description pre-pass
    descriptionRequests, \* pre-pass: the state of each reference's request
    scenePrompts, \* local: the panel specs of the run
    characterCanon, \* local: canon returned by the structured backend
    i,            \* local: loop index (0-based)
    attempt,      \* local of the text / image call: attempt counter
    lastError,    \* local of the text / image call: last failure's message
    lastRequest,  \* history: the last image request put on the wire
    imageRequests,\* history: image requests issued, per array position
    callResults,  \* history: how the image call of each position ended
    decomposed,   \* history: the decomposition call of this run
    waited,       \* history: the delay awaited before the outstanding image
                  \* attempt, in milliseconds
    stale         \* an earlier invocation of the handler that still runs

vars == <<build, apiKey, comicPanels, error, progress, isLoading, timers, pc,
          options, characterDescriptions, descriptionRequests, scenePrompts,
          characterCanon, i,
          attempt, lastError, lastRequest, imageRequests, callResults,
          decomposed, waited, stale>>

(***************************************************************************)
(* Bounds of the model.                                                    *)
(***************************************************************************)
MaxScenes == 2        \* longest scene array a text backend returns
MaxSceneNumber == 2   \* largest scene_number a text backend returns

(***************************************************************************)
(* JavaScript values.                                                      *)
(***************************************************************************)
UNDEFINED == "<undefined>"
NULL == "<null>"

\* A value that is `undefined` where a text (token sequence) is expected.
UndefinedText == <<UNDEFINED>>

\* `${v}` inside a template literal.
TemplateText(v) == IF v = UndefinedText THEN <<"undefined">> ELSE v

\* `v || ''` for a text value.
OrEmpty(v) == IF v = UndefinedText THEN <<>> ELSE v

\* String.prototype.toLowerCase, on the letters the model uses.
LowerChar(c) ==
    CASE c = "Z" -> "z"
      [] c = "A" -> "a"
      [] c = "R" -> "r"
      [] OTHER -> c

ToLowerCase(s) == [k \in 1..Len(s) |-> LowerChar(s[k])]

\* String.prototype.includes: `needle` occurs in `hay` as a contiguous run.
Includes(hay, needle) ==
    \E k \in 0..(Len(hay) - Len(needle)) :
        \A j \in 1..Len(needle) : hay[k + j] = needle[j]

\* Array.prototype.join("\n") on a list of texts.
RECURSIVE JoinLines(_)
JoinLines(texts) ==
    IF texts = <<>> THEN <<>>
    ELSE IF Len(texts) = 1 THEN texts[1]
    ELSE texts[1] \o <<"\n">> \o JoinLines(Tail(texts))

\* Array.isArray on a dialogues value (a list of lines, or not a list).
NotAnArray == <<UNDEFINED>>
IsArray(v) == v # NotAnArray

(***************************************************************************)
(* Story options (StoryInputOptions).  Story, style and era are opaque.    *)
(***************************************************************************)
GEMINI == "GEMINI"
POLLINATIONS == "POLLINATIONS"
FLASH_IMAGE_MODEL == "gemini-2.0-flash-preview-image-generation"
FIXED_IMAGE_SEED == "FIXED_IMAGE_SEED"

ZaraName == <<"Z", "a", "r", "a">>
ZaraDescription == <<"a tall woman with silver hair">>

\* CharacterReference lists the form can submit: none, or two complete
\* references with one without an image between them.
CharacterReferenceLists ==
    { <<>>,
      << [name |-> ZaraName, hasImage |-> TRUE],
         [name |-> <<"B", "o">>, hasImage |-> FALSE],
         [name |-> <<"C", "y">>, hasImage |-> TRUE] >> }

\* imageModelName.startsWith('imagen') / startsWith('gemini')
ImagenModels == {"imagen-3.0-generate-002"}
OtherGeminiModels == {"gemini-2.5-flash-image"}
GeminiImageModels == ImagenModels \cup {FLASH_IMAGE_MODEL}
PollinationsImageModels == {"flux"}

StoryOptions ==
    { o \in [ story : {<<"Once upon a time">>},
              style : {"Manga"},
              era : {"Modern"},
              aspectRatio : {"PORTRAIT"},
              includeCaptions : BOOLEAN,
              generationService : {GEMINI, POLLINATIONS},
              imageModel : GeminiImageModels \cup PollinationsImageModels,
              characterReferences : CharacterReferenceLists ] :
        IF o.generationService = GEMINI
        THEN o.imageModel \in GeminiImageModels
        ELSE o.imageModel \in PollinationsImageModels }

NoOptions ==
    [ story |-> <<>>, style |-> "", era |-> "", aspectRatio |-> "",
      includeCaptions |-> FALSE, generationService |-> "", imageModel |-> "",
      characterReferences |-> <<>> ]

(***************************************************************************)
(* What a text backend can answer.                                         *)
(*   kind   "neterr"  the request itself fails (fetch rejects, SDK throws) *)
(*          "status"  a non-2xx status (fetch resolves; the SDK throws)    *)
(*          "text"    a 2xx answer carrying `body`                         *)
(*   body.shape  "nonjson" | "array" | "object"                            *)
(*   body.scenesKind (object only)  "array" | "missing" | "string"         *)
(*   body.canonKind  (object only)  "missing" | "null" | "object"          *)
(*   body.fenced     the JSON text stands between ```json and ```          *)
(* A scene entry is an object with optional fields, or null.               *)
(***************************************************************************)
PromptZara == <<"Z", "A", "R", "A", " ", "r", "u", "n", "s">>
PromptCat == <<"a", " ", "c", "a", "t">>

NullEntry ==
    [ kind |-> "null", scene_number |-> 0, image_prompt |-> UndefinedText,
      caption |-> UNDEFINED, dialogues |-> NotAnArray ]

\* An entry that is a number or a string: reading a property of it yields
\* undefined.
PrimitiveEntry ==
    [ kind |-> "primitive", scene_number |-> 0, image_prompt |-> UndefinedText,
      caption |-> UNDEFINED, dialogues |-> NotAnArray ]

ObjectEntries(numbers, prompts, captions, dialogueValues) ==
    [ kind : {"object"}, scene_number : numbers, image_prompt : prompts,
      caption : captions, dialogues : dialogueValues ]

\* Sequences over S of length 0..n.
SeqUpTo(S, n) == UNION { [1..k -> S] : k \in 0..n }

NoCanon == <<>>
Canons ==
    { << [name |-> ZaraName, appearance |-> ZaraDescription, IVAP |-> <<>>] >>,
      << [name |-> ZaraName, appearance |-> <<>>, IVAP |-> ZaraDescription] >>,
      << [name |-> ZaraName, appearance |-> <<>>, IVAP |-> <<>>] >> }

FailedResponse(kind) ==
    [ kind |-> kind, shape |-> "nonjson", scenesKind |-> "missing",
      scenes |-> <<>>, canonKind |-> "missing", canon |-> NoCanon,
      fenced |-> FALSE ]

ArrayResponse(scenes) ==
    [ kind |-> "text", shape |-> "array", scenesKind |-> "array",
      scenes |-> scenes, canonKind |-> "missing", canon |-> NoCanon,
      fenced |-> FALSE ]

ObjectResponse(scenesKind, scenes, canonKind, canon) ==
    [ kind |-> "text", shape |-> "object", scenesKind |-> scenesKind,
      scenes |-> scenes, canonKind |-> canonKind, canon |-> canon,
      fenced |-> FALSE ]

\* The same JSON text inside a markdown fence.
Fenced(resp) == [resp EXCEPT !.fenced = TRUE]

\* Bare arrays range over `entries`, objects over `objectEntries`.
TextResponsesOver(entries, objectEntries) ==
    { FailedResponse("neterr"), FailedResponse("status"), FailedResponse("text") }
    \cup { ArrayResponse(s) : s \in SeqUpTo(entries, MaxScenes) }
    \cup { ObjectResponse("array", s, "missing", NoCanon) :
             s \in SeqUpTo(objectEntries, MaxScenes) }
    \cup { ObjectResponse("array", s, "object", c) :
             s \in SeqUpTo(objectEntries, MaxScenes), c \in Canons }
    \cup { ObjectResponse("array", s, "null", NoCanon) :
             s \in SeqUpTo(objectEntries, 1) }
    \cup { ObjectResponse(k, <<>>, "missing", NoCanon) : k \in {"missing", "string"} }

(***************************************************************************)
(* Service revisions.                                                      *)
(*   "main"   src/services/geminiService.ts                                *)
(*   "p000a"  src/unnamed/part_000, lines 1-299   (character canon)        *)
(*   "p000b"  src/unnamed/part_000, lines 301-551 (description pre-pass)   *)
(*   "p001"   src/unnamed/part_001                                         *)
(*   "p002"   src/unnamed/part_002                (description pre-pass)   *)
(* Orchestrator revisions.                                                 *)
(*   "A"  src/App.tsx, lines 1-295   (uses the returned character canon)   *)
(*   "B"  src/App.tsx, lines 297-497 (runs the description pre-pass)       *)
(* A build pairs an orchestrator with a service revision whose exported    *)
(* functions it imports.                                                   *)
(***************************************************************************)
Builds ==
    { <<"A", "main">>, <<"A", "p000a">>, <<"A", "p001">>,
      <<"B", "p000b">>, <<"B", "p002">> }

(***************************************************************************)
(* Parsing.  The result of a parse is [isNull, value].                     *)
(***************************************************************************)
ParsedNull == [isNull |-> TRUE, value |-> <<>>]
Parsed(v) == [isNull |-> FALSE, value |-> v]

\* extractJsonArray: the text from the first "[" to the last "]", decoded.
\* Of an object that holds a scenes array this is the scenes array; a fence
\* around the text lies outside the brackets.
extractJsonArray(body) ==
    IF body.shape = "array" THEN Parsed(body.scenes)
    ELSE IF body.shape = "object" /\ body.scenesKind = "array"
         THEN Parsed(body.scenes)
    ELSE ParsedNull

\* extractJsonAndGetScenes: the text inside the fence, or else the outermost
\* object or array, decoded; an array is returned as is, of an object its
\* scenes array.
extractJsonAndGetScenes(body) ==
    IF body.shape = "array" THEN Parsed(body.scenes)
    ELSE IF body.shape = "object" /\ body.scenesKind = "array"
         THEN Parsed(body.scenes)
    ELSE ParsedNull

(***************************************************************************)
(* Mapping of the decoded entries to panel specs.                          *)
(***************************************************************************)
\* A variant that numbers an unnumbered entry by its 0-based index.
SceneNumberOrIndex_ZeroBased(panel, index) ==
    IF panel.scene_number # 0 THEN panel.scene_number ELSE index

\* panel.scene_number || index + 1   (index is 0-based)
SceneNumberOrIndex(panel, index) ==
    IF panel.scene_number # 0 THEN panel.scene_number ELSE index + 1

\* `${prompt}, in the style of ${style}, ${era}`
WithStyleSuffix(prompt, style, era) ==
    prompt \o <<", in the style of ", style, ", ", era>>

\* caption: options.includeCaptions ? panel.caption : null
CaptionPolicy(panel, includeCaptions) ==
    IF includeCaptions THEN panel.caption ELSE NULL

\* dialogues: options.includeCaptions && Array.isArray(panel.dialogues)
\*              ? panel.dialogues : []
DialoguesPolicy(panel, includeCaptions) ==
    IF includeCaptions /\ IsArray(panel.dialogues) THEN panel.dialogues ELSE <<>>

\* geminiService.ts, generateScenePrompts: the map callback
MapPanelGemini(panel, index, opts) ==
    [ scene_number |-> SceneNumberOrIndex(panel, index),
      image_prompt |-> panel.image_prompt,
      caption |-> CaptionPolicy(panel, opts.includeCaptions),
      dialogues |-> DialoguesPolicy(panel, opts.includeCaptions) ]

\* geminiService.ts, generateScenePromptsWithPollinations: the map callback
MapPanelPollinations(panel, index, opts) ==
    [ scene_number |-> SceneNumberOrIndex(panel, index),
      image_prompt |->
          WithStyleSuffix(TemplateText(panel.image_prompt), opts.style, opts.era),
      caption |-> CaptionPolicy(panel, opts.includeCaptions),
      dialogues |-> DialoguesPolicy(panel, opts.includeCaptions) ]

\* part_000 (canon revision), generateScenePrompts: the map callback
\* (caption: (includeCaptions ? panel.caption : null) || null)
MapPanelGeminiCanon(panel, index, opts) ==
    [ scene_number |-> SceneNumberOrIndex(panel, index),
      image_prompt |-> OrEmpty(panel.image_prompt),
      caption |-> IF CaptionPolicy(panel, opts.includeCaptions) \in {UNDEFINED, ""}
                  THEN NULL
                  ELSE CaptionPolicy(panel, opts.includeCaptions),
      dialogues |-> DialoguesPolicy(panel, opts.includeCaptions) ]

\* part_000 (canon revision), generateScenePromptsWithPollinations
MapPanelPollinationsCanon(panel, index, opts) ==
    [ scene_number |-> SceneNumberOrIndex(panel, index),
      image_prompt |->
          WithStyleSuffix(OrEmpty(panel.image_prompt), opts.style, opts.era),
      caption |-> CaptionPolicy(panel, opts.includeCaptions),
      dialogues |-> DialoguesPolicy(panel, opts.includeCaptions) ]

\* part_002 / part_000 (pre-pass revision), generateScenePrompts:
\* ({...panel, scene_number: panel.scene_number || index + 1})
MapPanelSpread(panel, index, opts) ==
    [ scene_number |-> SceneNumberOrIndex(panel, index),
      image_prompt |-> panel.image_prompt,
      caption |-> panel.caption,
      dialogues |-> panel.dialogues ]

\* part_002 / part_000 (pre-pass revision), generateScenePromptsWithPollinations
MapPanelSpreadPollinations(panel, index, opts) ==
    [ scene_number |-> SceneNumberOrIndex(panel, index),
      image_prompt |->
          WithStyleSuffix(TemplateText(panel.image_prompt), opts.style, opts.era),
      caption |-> panel.caption,
      dialogues |-> panel.dialogues ]

\* Reading a property of a null entry throws a TypeError.
ThrowsOnEntry(arr) == \E k \in 1..Len(arr) : arr[k].kind = "null"

MapPanel(mapping, panel, index, opts) ==
    CASE mapping = "Gemini" -> MapPanelGemini(panel, index, opts)
      [] mapping = "Pollinations" -> MapPanelPollinations(panel, index, opts)
      [] mapping = "GeminiCanon" -> MapPanelGeminiCanon(panel, index, opts)
      [] mapping = "PollinationsCanon" -> MapPanelPollinationsCanon(panel, index, opts)
      [] mapping = "Spread" -> MapPanelSpread(panel, index, opts)
      [] mapping = "SpreadPollinations" -> MapPanelSpreadPollinations(panel, index, opts)

MapScenes(arr, opts, mapping) ==
    [k \in 1..Len(arr) |-> MapPanel(mapping, arr[k], k - 1, opts)]

\* part_000 (canon revision): non-object entries become null and are filtered.
DropNullEntries(arr) == SelectSeq(arr, LAMBDA e : e.kind = "object")

(***************************************************************************)
(* The value a decomposition call hands to the orchestrator:               *)
(*   threw    the call threw `message`                                     *)
(*   isArray  the value is an array (`scenes`); otherwise it is an object  *)
(*            with the keys scenes and characterCanon                      *)
(***************************************************************************)
Threw(message) ==
    [ threw |-> TRUE, message |-> message, isArray |-> FALSE, scenes |-> <<>>,
      canonKind |-> "missing", canon |-> NoCanon ]

ReturnedArray(scenes) ==
    [ threw |-> FALSE, message |-> <<>>, isArray |-> TRUE, scenes |-> scenes,
      canonKind |-> "missing", canon |-> NoCanon ]

ReturnedObject(scenes, canonKind, canon) ==
    [ threw |-> FALSE, message |-> <<>>, isArray |-> FALSE, scenes |-> scenes,
      canonKind |-> canonKind, canon |-> canon ]

\* Message of the failure a text response causes in a Gemini call.
GeminiTextFailure(resp) ==
    IF resp.kind # "text" THEN <<"API error">>
    ELSE IF resp.shape = "nonjson" THEN <<"Unexpected token">>
    ELSE <<"TypeError">>

\* geminiService.ts, generateScenePrompts
generateScenePrompts_main(key, opts, resp) ==
    IF key = "" THEN Threw(<<"API Key is required to generate scene prompts.">>)
    ELSE IF resp.kind # "text" \/ resp.shape = "nonjson"
    THEN Threw(<<"Gemini scene generation failed: ">> \o GeminiTextFailure(resp))
    ELSE IF extractJsonArray(resp).isNull
    THEN Threw(<<"Gemini scene generation failed: ",
                 "AI response did not contain a valid scenes array.">>)
    ELSE IF ThrowsOnEntry(extractJsonArray(resp).value)
    THEN Threw(<<"Gemini scene generation failed: ">> \o GeminiTextFailure(resp))
    ELSE ReturnedArray(MapScenes(extractJsonArray(resp).value, opts, "Gemini"))

\* part_000 (canon revision), generateScenePrompts
generateScenePrompts_p000a(key, opts, resp) ==
    IF key = "" THEN Threw(<<"API Key is required.">>)
    ELSE IF resp.kind # "text" \/ resp.shape = "nonjson"
    THEN Threw(<<"Failed to generate scene prompts: ">> \o GeminiTextFailure(resp))
    ELSE IF resp.fenced
    THEN Threw(<<"Failed to generate scene prompts: ", "Unexpected token">>)
    ELSE IF resp.shape # "object" \/ resp.scenesKind # "array"
    THEN Threw(<<"Failed to generate scene prompts: ",
                 "The AI returned data in an unexpected format. The 'scenes' property is missing or not an array.">>)
    ELSE ReturnedObject(
             MapScenes(DropNullEntries(resp.scenes), opts, "GeminiCanon"),
             resp.canonKind, resp.canon)

\* part_001, generateScenePrompts: (parsedData.scenes || []).map(...)
generateScenePrompts_p001(key, opts, resp) ==
    IF key = "" THEN Threw(<<"API Key is required to generate scene prompts.">>)
    ELSE IF resp.kind # "text" \/ resp.shape = "nonjson"
    THEN Threw(<<"Failed to generate scene prompts: ">> \o GeminiTextFailure(resp))
    ELSE IF resp.fenced
    THEN Threw(<<"Failed to generate scene prompts: ", "Unexpected token">>)
    ELSE IF resp.shape = "array" \/ resp.scenesKind = "missing"
    THEN ReturnedArray(<<>>)
    ELSE IF resp.scenesKind = "string" \/ ThrowsOnEntry(resp.scenes)
    THEN Threw(<<"Failed to generate scene prompts: ">> \o GeminiTextFailure(resp))
    ELSE ReturnedArray(MapScenes(resp.scenes, opts, "Gemini"))

\* part_000 (pre-pass revision), generateScenePrompts
generateScenePrompts_p000b(key, opts, resp) ==
    IF key = "" THEN Threw(<<"API Key is required.">>)
    ELSE IF resp.kind # "text" THEN Threw(GeminiTextFailure(resp))
    ELSE IF extractJsonAndGetScenes(resp).isNull
    THEN Threw(<<"AI response did not contain a valid scenes array.">>)
    ELSE IF ThrowsOnEntry(extractJsonAndGetScenes(resp).value)
    THEN Threw(GeminiTextFailure(resp))
    ELSE ReturnedArray(
             MapScenes(extractJsonAndGetScenes(resp).value, opts, "Spread"))

\* part_002, generateScenePrompts (no credential check of its own)
generateScenePrompts_p002(key, opts, resp) ==
    IF resp.kind # "text" THEN Threw(GeminiTextFailure(resp))
    ELSE IF extractJsonAndGetScenes(resp).isNull
    THEN Threw(<<"AI response did not contain a valid scenes array.">>)
    ELSE IF ThrowsOnEntry(extractJsonAndGetScenes(resp).value)
    THEN Threw(GeminiTextFailure(resp))
    ELSE ReturnedArray(
             MapScenes(extractJsonAndGetScenes(resp).value, opts, "Spread"))

generateScenePrompts(svcRev, key, opts, resp) ==
    CASE svcRev = "main" -> generateScenePrompts_main(key, opts, resp)
      [] svcRev = "p000a" -> generateScenePrompts_p000a(key, opts, resp)
      [] svcRev = "p001" -> generateScenePrompts_p001(key, opts, resp)
      [] svcRev = "p000b" -> generateScenePrompts_p000b(key, opts, resp)
      [] svcRev = "p002" -> generateScenePrompts_p002(key, opts, resp)

(***************************************************************************)
(* Open backend: one text attempt.  The result of an attempt is either the *)
(* mapped scenes or a failure (caught inside the function).                *)
(***************************************************************************)
AttemptFailed(message) == [failed |-> TRUE, message |-> message, scenes |-> <<>>]
AttemptReturned(scenes) == [failed |-> FALSE, message |-> <<>>, scenes |-> scenes]

\* geminiService.ts and part_001: body of one iteration of the retry loop
PollinationsTextAttempt_main(opts, resp) ==
    IF resp.kind = "neterr" THEN AttemptFailed(<<"Failed to fetch">>)
    ELSE IF resp.kind = "status"
    THEN AttemptFailed(<<"Pollinations text API returned status 500.">>)
    ELSE IF extractJsonArray(resp).isNull \/ extractJsonArray(resp).value = <<>>
    THEN AttemptFailed(<<"AI response did not contain a valid, non-empty JSON array.">>)
    ELSE IF ThrowsOnEntry(extractJsonArray(resp).value)
    THEN AttemptFailed(<<"TypeError">>)
    ELSE AttemptReturned(
             MapScenes(extractJsonArray(resp).value, opts, "Pollinations"))

\* part_000 (canon revision): the single attempt
PollinationsTextAttempt_p000a(opts, resp) ==
    IF resp.kind = "neterr" THEN AttemptFailed(<<"Failed to fetch">>)
    ELSE IF resp.kind = "status"
    THEN AttemptFailed(<<"Pollinations text API returned status 500.">>)
    ELSE IF extractJsonArray(resp).isNull
    THEN AttemptFailed(<<"AI response did not contain a valid JSON array.">>)
    ELSE IF ThrowsOnEntry(extractJsonArray(resp).value)
    THEN AttemptFailed(<<"TypeError">>)
    ELSE AttemptReturned(
             MapScenes(extractJsonArray(resp).value, opts, "PollinationsCanon"))

\* part_002 and part_000 (pre-pass revision): the single attempt
PollinationsTextAttempt_p002(opts, resp) ==
    IF resp.kind = "neterr" THEN AttemptFailed(<<"Failed to fetch">>)
    ELSE IF resp.kind = "status"
    THEN AttemptFailed(<<"Pollinations text API returned status 500">>)
    ELSE IF extractJsonAndGetScenes(resp).isNull
    THEN AttemptFailed(<<"AI response did not contain a valid scenes array.">>)
    ELSE IF ThrowsOnEntry(extractJsonAndGetScenes(resp).value)
    THEN AttemptFailed(<<"TypeError">>)
    ELSE AttemptReturned(
             MapScenes(extractJsonAndGetScenes(resp).value, opts,
                       "SpreadPollinations"))

PollinationsTextAttempt(svcRev, opts, resp) ==
    CASE svcRev \in {"main", "p001"} -> PollinationsTextAttempt_main(opts, resp)
      [] svcRev = "p000a" -> PollinationsTextAttempt_p000a(opts, resp)
      [] svcRev \in {"p000b", "p002"} -> PollinationsTextAttempt_p002(opts, resp)

\* const maxRetries = 2 of generateScenePromptsWithPollinations; the
\* revisions without a retry loop make a single attempt.
TextMaxRetries(svcRev) == IF svcRev \in {"main", "p001"} THEN 2 ELSE 0

(***************************************************************************)
(* Image backends.                                                         *)
(* What an image backend can answer:                                       *)
(*   kind "neterr" | "status" | "ok"; of an ok answer the declared content *)
(*   type (open backend), the number of images it holds (structured        *)
(*   backend) and the payload ("" is an absent payload).                   *)
(***************************************************************************)
ImagePayloads == {"AAAA", "BBBB"}

ImageResponses ==
    { [kind |-> "neterr", contentType |-> "", images |-> 0, data |-> ""],
      [kind |-> "status", contentType |-> "", images |-> 0, data |-> ""],
      [kind |-> "ok", contentType |-> "text/html", images |-> 0, data |-> "AAAA"],
      [kind |-> "ok", contentType |-> "image/jpeg", images |-> 1, data |-> ""] }
    \cup { [kind |-> "ok", contentType |-> "image/jpeg", images |-> 1, data |-> d] :
             d \in ImagePayloads }

\* The image field of a panel record: undefined, the sentinel 'error', or a
\* data URL.
ImagePending == <<UNDEFINED>>
ImageError == <<"error">>
DataUrl(mimeType, data) ==
    <<"data:", mimeType, ";base64,", IF data = "" THEN "undefined" ELSE data>>

\* blobToDataUrl: the data URL of a blob (an empty blob has an empty payload)
blobToDataUrl(mimeType, data) == <<"data:", mimeType, ";base64,", data>>

NoRequest ==
    [ api |-> "none", prompt |-> <<>>, seed |-> "", size |-> "", refs |-> <<>> ]

\* Aspect ratio of a Gemini generateImages request.
GeminiAspectRatio_main(ar) ==
    CASE ar = "SQUARE" -> "1:1"
      [] ar = "PORTRAIT" -> "9:16"
      [] ar = "LANDSCAPE" -> "16:9"
      [] OTHER -> "1:1"

\* part_000 (canon revision): PORTRAIT ? '9:16' : LANDSCAPE ? '16:9' : '1:1'
GeminiAspectRatio_p000a(ar) ==
    IF ar = "PORTRAIT" THEN "9:16" ELSE IF ar = "LANDSCAPE" THEN "16:9" ELSE "1:1"

\* part_002 / part_000 (pre-pass revision):
\* SQUARE ? '1:1' : PORTRAIT ? '9:16' : '16:9'
GeminiAspectRatio_p002(ar) ==
    IF ar = "SQUARE" THEN "1:1" ELSE IF ar = "PORTRAIT" THEN "9:16" ELSE "16:9"

\* `Render in ${inputAspectRatio.toLowerCase()} aspect ratio.`
AspectRatioHint(ar) ==
    CASE ar = "SQUARE" -> "Render in square aspect ratio."
      [] ar = "PORTRAIT" -> "Render in portrait aspect ratio."
      [] ar = "LANDSCAPE" -> "Render in landscape aspect ratio."
      [] OTHER -> "Render in aspect ratio."

\* width x height of a Pollinations image request
PollinationsSize(ar) ==
    CASE ar = "PORTRAIT" -> "1024x1792"
      [] ar = "LANDSCAPE" -> "1792x1024"
      [] OTHER -> "1024x1024"

\* The names of the references attached to a request: those with a name and
\* an image.
RECURSIVE AttachedReferences(_)
AttachedReferences(refs) ==
    IF refs = <<>> THEN <<>>
    ELSE (IF refs[1].hasImage /\ refs[1].name # <<>> THEN <<refs[1].name>> ELSE <<>>)
         \o AttachedReferences(Tail(refs))

\* `${initialImagePrompt}, in the art style of ${style}, ${era} era.`
ArtStylePrompt(prompt, style, era) ==
    TemplateText(prompt) \o <<", in the art style of ", style, ", ", era, " era.">>

\* --- generateImageForPromptWithPollinations ---------------------------------
\* geminiService.ts, part_002, part_000 (pre-pass revision): seed on the wire
PollinationsImageRequest_main(prompt, model, ar) ==
    [ api |-> "pollinations", prompt |-> TemplateText(prompt),
      seed |-> FIXED_IMAGE_SEED, size |-> PollinationsSize(ar), refs |-> <<>> ]

\* part_001 and part_000 (canon revision): URLSearchParams holds model, width
\* and height only
PollinationsImageRequest_p001(prompt, model, ar) ==
    [ api |-> "pollinations", prompt |-> TemplateText(prompt),
      seed |-> "", size |-> PollinationsSize(ar), refs |-> <<>> ]

PollinationsImageRequest(svcRev, prompt, model, ar) ==
    IF svcRev \in {"p001", "p000a"}
    THEN PollinationsImageRequest_p001(prompt, model, ar)
    ELSE PollinationsImageRequest_main(prompt, model, ar)

ImageFailed(message) == [failed |-> TRUE, message |-> message, url |-> ImagePending]
ImageReturned(url) == [failed |-> FALSE, message |-> <<>>, url |-> url]

\* How an image call ended, with the response its last attempt received.
Ended(result, resp) ==
    [ failed |-> result.failed, message |-> result.message, url |-> result.url,
      response |-> resp ]

\* The message a revision wraps a Pollinations failure in (the pre-pass
\* revisions have no catch block).
PollinationsImageWrap(svcRev, message) ==
    CASE svcRev \in {"main", "p001"} ->
             <<"Failed to generate image from Pollinations. Error: ">> \o message
      [] svcRev = "p000a" -> <<"Failed to generate image from Pollinations: ">> \o message
      [] OTHER -> message

\* response handling of generateImageForPromptWithPollinations
PollinationsImageResult(svcRev, resp) ==
    IF resp.kind = "neterr"
    THEN ImageFailed(PollinationsImageWrap(svcRev, <<"Failed to fetch">>))
    ELSE IF resp.kind = "status"
    THEN ImageFailed(PollinationsImageWrap(svcRev,
             IF svcRev \in {"p000b", "p002"}
             THEN <<"Pollinations image API returned 500">>
             ELSE <<"Pollinations image API returned status 500">>))
    ELSE IF resp.contentType # "image/jpeg"
    THEN ImageFailed(PollinationsImageWrap(svcRev,
             IF svcRev \in {"p000b", "p002"}
             THEN <<"API did not return a valid image.">>
             ELSE <<"The API did not return a valid image.">>))
    ELSE ImageReturned(blobToDataUrl(resp.contentType, resp.data))

\* --- generateImageForPrompt -------------------------------------------------
\* App.tsx (canon revision): the canon keys found in the prompt
sceneCharacterNames(canonKind, canon, prompt) ==
    IF canonKind # "object" \/ prompt = UndefinedText \/ prompt = <<>> THEN <<>>
    ELSE SelectSeq([k \in 1..Len(canon) |-> canon[k].name],
                   LAMBDA name : Includes(ToLowerCase(prompt), ToLowerCase(name)))

\* characterCanon[name]?.appearance || characterCanon[name]?.IVAP || ""
CanonDescription(canon, name) ==
    LET hits == SelectSeq(canon, LAMBDA c : c.name = name)
    IN  IF hits = <<>> THEN <<>>
        ELSE IF hits[1].appearance # <<>> THEN hits[1].appearance
        ELSE hits[1].IVAP

\* part_000 (canon revision): prepend the descriptions of the scene's
\* characters to `${initialImagePrompt}, in the style of ${style}, ${era}`
AugmentedPrompt_p000a(prompt, style, era, canonKind, canon, names) ==
    LET base == WithStyleSuffix(TemplateText(prompt), style, era)
        descs == JoinLines(SelectSeq(
                     [k \in 1..Len(names) |-> CanonDescription(canon, names[k])],
                     LAMBDA d : d # <<>>))
    IN  IF canonKind = "object" /\ names # <<>> /\ descs # <<>>
        THEN descs \o <<"\n">> \o base
        ELSE base

\* The request a Gemini image call puts on the wire, or NoRequest when the
\* call throws before issuing one.
GeminiImageRequest(svcRev, key, prompt, opts, canonKind, canon, names, refs) ==
    IF key = "" THEN NoRequest
    ELSE CASE svcRev = "main" ->
             [ api |-> "generateImages",
               prompt |-> ArtStylePrompt(prompt, opts.style, opts.era),
               seed |-> FIXED_IMAGE_SEED,
               size |-> GeminiAspectRatio_main(opts.aspectRatio),
               refs |-> IF opts.imageModel = FLASH_IMAGE_MODEL
                        THEN AttachedReferences(refs) ELSE <<>> ]
      [] svcRev = "p000b" ->
             [ api |-> "generateImages",
               prompt |-> ArtStylePrompt(prompt, opts.style, opts.era),
               seed |-> FIXED_IMAGE_SEED,
               size |-> GeminiAspectRatio_p002(opts.aspectRatio),
               refs |-> IF opts.imageModel = FLASH_IMAGE_MODEL
                        THEN AttachedReferences(refs) ELSE <<>> ]
      [] svcRev = "p002" ->
             [ api |-> "generateImages",
               prompt |-> ArtStylePrompt(prompt, opts.style, opts.era),
               seed |-> FIXED_IMAGE_SEED,
               size |-> GeminiAspectRatio_p002(opts.aspectRatio),
               refs |-> <<>> ]
      [] svcRev = "p001" ->
             [ api |-> "generateImages",
               prompt |-> WithStyleSuffix(TemplateText(prompt), opts.style, opts.era),
               seed |-> FIXED_IMAGE_SEED,
               size |-> GeminiAspectRatio_main(opts.aspectRatio),
               refs |-> <<>> ]
      [] svcRev = "p000a" ->
             IF opts.imageModel \in ImagenModels
             THEN [ api |-> "generateImages",
                    prompt |-> AugmentedPrompt_p000a(prompt, opts.style, opts.era,
                                                     canonKind, canon, names),
                    seed |-> FIXED_IMAGE_SEED,
                    size |-> GeminiAspectRatio_p000a(opts.aspectRatio),
                    refs |-> <<>> ]
             ELSE IF opts.imageModel = FLASH_IMAGE_MODEL
             THEN [ api |-> "generateContent",
                    prompt |-> AugmentedPrompt_p000a(prompt, opts.style, opts.era,
                                                     canonKind, canon, names),
                    seed |-> "",
                    size |-> AspectRatioHint(opts.aspectRatio),
                    refs |-> SelectSeq([k \in 1..Len(refs) |-> refs[k].name],
                                 LAMBDA n : \E k \in 1..Len(names) : names[k] = n) ]
             ELSE IF opts.imageModel \in OtherGeminiModels
             THEN [ api |-> "generateContent",
                    prompt |-> AugmentedPrompt_p000a(prompt, opts.style, opts.era,
                                                     canonKind, canon, names)
                               \o <<". ", AspectRatioHint(opts.aspectRatio)>>,
                    seed |-> "",
                    size |-> "",
                    refs |-> <<>> ]
             ELSE NoRequest

\* Message of the failure of one Gemini image attempt, or <<>> if it succeeds.
GeminiImageFailure(svcRev, model, resp) ==
    IF resp.kind # "ok" THEN <<"API error">>
    ELSE IF resp.images = 0
    THEN CASE svcRev = "main" -> <<"Image generation returned no images.">>
           [] svcRev = "p001" -> <<"The API did not return any images.">>
           [] svcRev = "p000a" ->
                 IF model \in ImagenModels THEN <<"TypeError">>
                 ELSE <<"The Gemini API did not return a valid image in its response.">>
           [] OTHER -> <<"Image generation returned no image data.">>
    ELSE IF resp.data = "" /\ svcRev \in {"p000b", "p002"}
    THEN <<"Image generation returned no image data.">>
    ELSE IF resp.data = "" /\ svcRev = "p001"
    THEN <<"Image data is not in the expected format (base64 string).">>
    ELSE <<>>

\* The message a revision's catch block wraps a single attempt's failure in
\* (geminiService.ts keeps it as lastError and wraps after the loop).
GeminiImageWrap(svcRev, model, message) ==
    CASE svcRev = "main" -> message
      [] svcRev = "p001" -> <<"Gemini image generation failed. ">> \o message
      [] svcRev = "p000a" ->
             IF model \in ImagenModels
             THEN <<"Imagen image generation failed: ">> \o message
             ELSE <<"Gemini image generation failed: ">> \o message
      [] OTHER -> <<"Failed to generate Gemini image: ">> \o message

\* MIME type of the data URL a Gemini image call returns.
GeminiImageMime(svcRev) ==
    IF svcRev \in {"p001", "p000a"} THEN "image/jpeg" ELSE "image/png"

GeminiImageResult(svcRev, model, resp) ==
    IF GeminiImageFailure(svcRev, model, resp) # <<>>
    THEN ImageFailed(GeminiImageWrap(svcRev, model,
                                     GeminiImageFailure(svcRev, model, resp)))
    ELSE ImageReturned(DataUrl(GeminiImageMime(svcRev), resp.data))

\* const maxRetries = 2 of generateImageForPrompt (geminiService.ts); every
\* other image function makes a single attempt.
ImageMaxRetries(svcRev, service) ==
    IF svcRev = "main" /\ service = GEMINI THEN 2 ELSE 0

\* The 2000 of delay(2000 * attempt), in milliseconds.
BaseDelay == 2000

\* A variant that waits the same time before every retry.
ImageRetryDelay_Constant(attemptNo) ==
    IF attemptNo > 0 THEN BaseDelay ELSE 0

\* if (attempt > 0) await delay(2000 * attempt): what the loop of
\* generateImageForPrompt waits before attempt number attemptNo (0-based).
ImageRetryDelay(attemptNo) ==
    IF attemptNo > 0 THEN BaseDelay * attemptNo ELSE 0

\* throw new Error(`Failed to generate image after ${maxRetries + 1} attempts.
\*                  Last error: ${lastError?.message}`)
ExhaustedMessage(svcRev, service, message) ==
    IF svcRev = "main" /\ service = GEMINI
    THEN <<"Failed to generate image after ", ToString(ImageMaxRetries(svcRev, service) + 1),
           " attempts. Last error: ">> \o message
    ELSE message

(***************************************************************************)
(* The orchestrator: handleComicGeneration of App.tsx.                     *)
(***************************************************************************)
ApiKeys == {"", " ", "AIzaKey"}

\* String.prototype.trim on the keys of the model
Trim(key) == IF key = " " THEN "" ELSE key

app == build[1]
svc == build[2]

\* A variant that asks for the credential on the structured path only.
CredentialMissing_StructuredOnly(appRev, opts, key) ==
    opts.generationService = GEMINI /\ Trim(key) = ""

\* The credential check that opens handleComicGeneration.
CredentialMissing(appRev, opts, key) ==
    IF appRev = "A"
    THEN opts.generationService = GEMINI /\ Trim(key) = ""
    ELSE (opts.generationService = GEMINI \/ Len(opts.characterReferences) > 0)
         /\ Trim(key) = ""

CredentialMessage(appRev) ==
    IF appRev = "A"
    THEN <<"Please enter your Gemini API Key to generate comics with the Gemini service.">>
    ELSE <<"A Gemini API Key is required to use the Gemini service or the Character Reference feature.">>

FallbackWarning ==
    <<"Warning: The AI could not break the story into scenes. Generating a single image from the full story text instead.">>

\* The single panel the orchestrator synthesizes when decomposition is empty.
FallbackPanel(opts) ==
    [ scene_number |-> 1,
      image_prompt |-> WithStyleSuffix(opts.story, opts.style, opts.era),
      caption |-> "Fallback: Full Story",
      dialogues |-> <<"Scene generation failed.">> ]

\* scenePrompts.map(p => ({ ...p, imageUrl: undefined }))
InitialPanels(specs) ==
    [k \in 1..Len(specs) |->
        [ scene_number |-> specs[k].scene_number,
          image_prompt |-> specs[k].image_prompt,
          caption |-> specs[k].caption,
          dialogues |-> specs[k].dialogues,
          imageUrl |-> ImagePending ]]

\* A variant that publishes the result on every record still pending.
SetImageUrl_Pending(prevPanels, sceneNumber, imageUrl) ==
    [k \in 1..Len(prevPanels) |->
        IF prevPanels[k].scene_number = sceneNumber
           \/ prevPanels[k].imageUrl = ImagePending
        THEN [prevPanels[k] EXCEPT !.imageUrl = imageUrl]
        ELSE prevPanels[k]]

\* A variant that publishes the result on the first record with the scene
\* number only (find instead of map).
SetImageUrl_FirstMatch(prevPanels, sceneNumber, imageUrl) ==
    [k \in 1..Len(prevPanels) |->
        IF /\ prevPanels[k].scene_number = sceneNumber
           /\ \A j \in 1..(k - 1) : prevPanels[j].scene_number # sceneNumber
        THEN [prevPanels[k] EXCEPT !.imageUrl = imageUrl]
        ELSE prevPanels[k]]

\* A variant without the spread: the record of the panel is replaced by one
\* that holds the scene number and the image only.
SetImageUrl_Replacing(prevPanels, sceneNumber, imageUrl) ==
    [k \in 1..Len(prevPanels) |->
        IF prevPanels[k].scene_number = sceneNumber
        THEN [ scene_number |-> sceneNumber, image_prompt |-> UndefinedText,
               caption |-> UNDEFINED, dialogues |-> NotAnArray,
               imageUrl |-> imageUrl ]
        ELSE prevPanels[k]]

\* prevPanels.map(p => p.scene_number === panel.scene_number
\*                       ? { ...p, imageUrl } : p)
SetImageUrl(prevPanels, sceneNumber, imageUrl) ==
    [k \in 1..Len(prevPanels) |->
        IF prevPanels[k].scene_number = sceneNumber
        THEN [prevPanels[k] EXCEPT !.imageUrl = imageUrl]
        ELSE prevPanels[k]]

\* `Error on panel ${panel.scene_number}: ${imgErrMessage}`
PanelErrorMessage(sceneNumber, message) ==
    <<"Error on panel ", ToString(sceneNumber), ": ">> \o message

\* A variant that overwrites the log instead of accumulating.
AppendError_Overwriting(prevError, line) == <<line>>

\* prevError ? `${prevError}\n${panelErrMessage}` : panelErrMessage
AppendError(prevError, line) == Append(prevError, line)

\* GenerationProgress; the percentage is the fraction num / den.
NoProgress ==
    [currentStep |-> UNDEFINED, num |-> 0, den |-> 1, currentPanel |-> 0, totalPanels |-> 0]

Progress(step, num, den, currentPanel, totalPanels) ==
    [currentStep |-> step, num |-> num, den |-> den,
     currentPanel |-> currentPanel, totalPanels |-> totalPanels]

\* percentage after scene generation: 10 (revision A), 25 (revision B)
BasePercentage(appRev) == IF appRev = "A" THEN 10 ELSE 25

\* A variant that reports the share of the panels still to be rendered.
PanelProgress_Remaining(appRev, index, totalPanels) ==
    Progress("Generating image for panel",
             BasePercentage(appRev) * totalPanels
                 + (totalPanels - index) * (100 - BasePercentage(appRev)),
             totalPanels, index + 1, totalPanels)

\* 10 + ((i + 1) / totalPanels) * 90, resp. 25 + ((i + 1) / totalPanels) * 75
PanelProgress(appRev, index, totalPanels) ==
    Progress("Generating image for panel", 
             BasePercentage(appRev) * totalPanels
                 + (index + 1) * (100 - BasePercentage(appRev)),
             totalPanels, index + 1, totalPanels)

CompleteProgress(totalPanels) ==
    Progress("Comic generation complete!", 100, 1, totalPanels, totalPanels)

\* What is known of the decomposition of the current run: the number of
\* calls and of text requests, whether every response so far carried no
\* scene, how the call ended ("none" while it runs, "threw", "returned"),
\* and of the last response whether it was well formed, the image prompts
\* of its entries, and the panel specs the call returned; the references of
\* its request; and, where the specification asks for it (keepResponse), the
\* last response in full.
NoReferences == [attached |-> <<>>, named |-> <<>>]

NoDecomposition ==
    [ calls |-> 0, requests |-> 0, allBad |-> TRUE, outcome |-> "none",
      wellFormed |-> FALSE, prompts |-> <<>>, produced |-> <<>>,
      request |-> NoReferences,
      keepResponse |-> FALSE, response |-> FailedResponse("neterr") ]

\* characterReferences.map(c => c.name).filter(Boolean)
NamedReferences(refs) ==
    SelectSeq([k \in 1..Len(refs) |-> refs[k].name], LAMBDA n : n # <<>>)

\* The characters of a decomposition request: the names whose reference
\* image is attached to it as a part, and the names its instruction text
\* carries.
DecompositionReferences(svcRev, service, opts, descriptions) ==
    LET refs == opts.characterReferences
        both == [attached |-> AttachedReferences(refs),
                 named |-> AttachedReferences(refs)]
        namesOnly == [attached |-> <<>>, named |-> NamedReferences(refs)]
    IN  IF service = GEMINI
        THEN CASE svcRev = "main" ->
                    IF refs # <<>> /\ opts.imageModel # FLASH_IMAGE_MODEL
                    THEN both ELSE NoReferences
               [] svcRev = "p001" -> namesOnly
               [] OTHER -> both
        ELSE CASE svcRev = "p001" -> namesOnly
               [] svcRev \in {"p000b", "p002"} ->
                    [attached |-> <<>>,
                     named |-> [k \in 1..Len(descriptions) |-> descriptions[k].name]]
               [] OTHER -> NoReferences

\* A response that carries no scene: a failed request, a non-JSON text or an
\* empty array.
BadTextResponse(resp) ==
    \/ resp.kind # "text"
    \/ resp.shape = "nonjson"
    \/ resp.shape = "array" /\ resp.scenes = <<>>

Idle == pc \in {"idle", "complete", "aborted"}

\* The locals of an invocation that was overtaken by a later one while it
\* awaited an image call: the scene numbers of its panels, its loop index,
\* its attempt counter and the backend and model of its options.
NoStale ==
    [ pc |-> "none", sceneNumbers |-> <<>>, i |-> 0, attempt |-> 0,
      service |-> "", imageModel |-> "" ]

\* Responses the text backend gives in a run, and the options a user submits.
UnnumberedEntries ==
    ObjectEntries({0}, {PromptZara, PromptCat}, {"A caption"}, {<<"Zara: hi">>})

RunEntries ==
    UnnumberedEntries
    \cup ObjectEntries(1..MaxSceneNumber, {PromptCat}, {"A caption"}, {<<"Zara: hi">>})
    \cup {NullEntry}

RunTextResponses == TextResponsesOver(RunEntries, UnnumberedEntries)

InitialState(decomposition) ==
    /\ build \in Builds
    /\ apiKey \in ApiKeys
    /\ comicPanels = <<>>
    /\ error = <<>>
    /\ progress = NoProgress
    /\ isLoading = FALSE
    /\ timers = 0
    /\ pc = "idle"
    /\ options = NoOptions
    /\ characterDescriptions = <<>>
    /\ descriptionRequests = <<>>
    /\ scenePrompts = <<>>
    /\ characterCanon = [kind |-> "missing", canon |-> NoCanon]
    /\ i = 0
    /\ attempt = 0
    /\ lastError = <<>>
    /\ lastRequest = NoRequest
    /\ imageRequests = <<>>
    /\ callResults = <<>>
    /\ decomposed = decomposition
    /\ waited = 0
    /\ stale = NoStale

Init == InitialState(NoDecomposition)

\* The user edits the key field between runs.
SetApiKey(key) ==
    /\ Idle
    /\ key # apiKey
    /\ apiKey' = key
    /\ UNCHANGED <<waited, build, stale, comicPanels, error, progress, isLoading, timers, pc,
                   options, characterDescriptions, descriptionRequests, scenePrompts, characterCanon,
                   i, attempt, lastError, lastRequest, imageRequests,
                   callResults, decomposed>>

\* A variant that resets the output before the credential check.
SubmitRejected_Clearing(opts) ==
    /\ Idle
    /\ ~isLoading
    /\ CredentialMissing(app, opts, apiKey)
    /\ error' = <<CredentialMessage(app)>>
    /\ comicPanels' = <<>>
    /\ progress' = NoProgress
    /\ UNCHANGED <<waited, build, stale, apiKey, isLoading, timers, pc,
                   options, characterDescriptions, descriptionRequests,
                   scenePrompts, characterCanon, i, attempt, lastError,
                   lastRequest, imageRequests, callResults, decomposed>>

\* handleComicGeneration, credential missing: setError(...); return
SubmitRejected(opts) ==
    /\ Idle
    /\ ~isLoading
    /\ CredentialMissing(app, opts, apiKey)
    /\ error' = <<CredentialMessage(app)>>
    /\ UNCHANGED <<waited, build, stale, apiKey, comicPanels, progress, isLoading, timers, pc,
                   options, characterDescriptions, descriptionRequests, scenePrompts, characterCanon,
                   i, attempt, lastError, lastRequest, imageRequests,
                   callResults, decomposed>>

\* Revision B: the description pre-pass is needed.
needsCharacterPreProcessing(appRev, opts) ==
    /\ appRev = "B"
    /\ opts.generationService = POLLINATIONS
    /\ Len(opts.characterReferences) > 0

\* generateCharacterDescriptions up to its await: references.map runs every
\* callback to its first await, so a reference without an image or a name
\* has its null at once and every other one has its request on the wire.
DescriptionRequests(key, refs) ==
    IF key = "" THEN <<>>
    ELSE [k \in 1..Len(refs) |->
             IF ~refs[k].hasImage \/ refs[k].name = <<>>
             THEN "skipped" ELSE "outstanding"]

\* handleComicGeneration from the credential check to its first await.
StartRun(opts) ==
    /\ ~CredentialMissing(app, opts, apiKey)
    /\ isLoading' = TRUE
    /\ error' = <<>>
    /\ comicPanels' = <<>>
    /\ options' = opts
    /\ progress' =
         IF needsCharacterPreProcessing(app, opts)
         THEN Progress("Analyzing character references...", 5, 1, 0, 0)
         ELSE Progress("Analyzing story & generating scene prompts...",
                       IF app = "A" THEN 0 ELSE 10, 1, 0, 0)
    /\ pc' = IF needsCharacterPreProcessing(app, opts) THEN "prepass" ELSE "decompose"
    /\ characterDescriptions' = <<>>
    /\ descriptionRequests' =
         IF needsCharacterPreProcessing(app, opts)
         THEN DescriptionRequests(apiKey, opts.characterReferences)
         ELSE <<>>
    /\ scenePrompts' = <<>>
    /\ characterCanon' = [kind |-> "missing", canon |-> NoCanon]
    /\ i' = 0
    /\ attempt' = 0
    /\ lastError' = <<>>
    /\ lastRequest' = NoRequest
    /\ imageRequests' = <<>>
    /\ callResults' = <<>>
    /\ waited' = 0
    /\ decomposed' =
         IF needsCharacterPreProcessing(app, opts)
         THEN [NoDecomposition EXCEPT !.keepResponse = decomposed.keepResponse]
         ELSE [NoDecomposition EXCEPT
                  !.keepResponse = decomposed.keepResponse,
                  !.calls = 1,
                  !.request = DecompositionReferences(svc, opts.generationService,
                                                      opts, <<>>)]

\* A variant whose button stays enabled while the flag is set: the form
\* submits whenever the handler is not running.
Submit_Ungated(opts) ==
    /\ Idle
    /\ StartRun(opts)
    /\ UNCHANGED <<build, stale, apiKey, timers>>

\* The form submits while no run is active (its button is disabled while
\* isLoading).
Submit(opts) ==
    /\ Idle
    /\ ~isLoading
    /\ StartRun(opts)
    /\ UNCHANGED <<build, stale, apiKey, timers>>

\* A variant that lets a single settled request release the await.
DescriptionsSettled_Any(requests) ==
    requests = <<>> \/ \E k \in 1..Len(requests) : requests[k] # "outstanding"

\* await Promise.all(descriptionPromises): every callback has returned.
DescriptionsSettled(requests) ==
    \A k \in 1..Len(requests) : requests[k] # "outstanding"

\* A variant without the try/catch of the callback: one rejected request
\* rejects the whole Promise.all and no description is returned.
generateCharacterDescriptions_Unisolated(refs, requests) ==
    IF \E k \in 1..Len(requests) : requests[k] = "failed" THEN <<>>
    ELSE LET results ==
               [k \in 1..Len(requests) |->
                   IF requests[k] = "described"
                   THEN [name |-> refs[k].name, description |-> ZaraDescription,
                         isNull |-> FALSE]
                   ELSE [name |-> <<>>, description |-> <<>>, isNull |-> TRUE]]
         IN  SelectSeq(results, LAMBDA d : ~d.isNull)

\* What generateCharacterDescriptions returns: the callbacks' values in the
\* order of the references, the nulls filtered out.
generateCharacterDescriptions(refs, requests) ==
    LET results ==
          [k \in 1..Len(requests) |->
              IF requests[k] = "described"
              THEN [name |-> refs[k].name, description |-> ZaraDescription,
                    isNull |-> FALSE]
              ELSE [name |-> <<>>, description |-> <<>>, isNull |-> TRUE]]
    IN  SelectSeq(results, LAMBDA d : ~d.isNull)

\* The generateContent call of one reference returns, or throws and is
\* caught inside the callback.
DescriptionReturns(k, ok) ==
    /\ pc = "prepass"
    /\ k \in 1..Len(descriptionRequests)
    /\ descriptionRequests[k] = "outstanding"
    /\ descriptionRequests' =
         [descriptionRequests EXCEPT ![k] = IF ok THEN "described" ELSE "failed"]
    /\ UNCHANGED <<waited, build, stale, apiKey, comicPanels, error, progress, isLoading, timers,
                   pc, options, characterDescriptions, scenePrompts,
                   characterCanon, i, attempt, lastError, lastRequest,
                   imageRequests, callResults, decomposed>>

\* Promise.all resolves; handleComicGeneration goes on to the decomposition.
PrePass ==
    /\ pc = "prepass"
    /\ DescriptionsSettled(descriptionRequests)
    /\ characterDescriptions' =
         generateCharacterDescriptions(options.characterReferences, descriptionRequests)
    /\ progress' = Progress("Analyzing story & generating scene prompts...", 10, 1, 0, 0)
    /\ pc' = "decompose"
    /\ decomposed' =
         [decomposed EXCEPT
             !.calls = @ + 1,
             !.request = DecompositionReferences(svc, options.generationService,
                                                 options, characterDescriptions')]
    /\ UNCHANGED <<waited, build, stale, apiKey, comicPanels, error, isLoading, timers, options,
                   descriptionRequests, scenePrompts, characterCanon, i, attempt,
                   lastError, lastRequest, imageRequests, callResults>>

\* The catch block of handleComicGeneration.
Abort(message) ==
    /\ error' = <<message>>
    /\ comicPanels' = <<>>
    /\ progress' = NoProgress
    /\ pc' = "aborted"
    /\ IF app = "A"
       THEN isLoading' = FALSE /\ timers' = timers
       ELSE isLoading' = isLoading /\ timers' = timers + 1

\* From the fallback test to the head of the image loop.
StartRendering(returned, canon) ==
    LET specs == IF returned = <<>> THEN <<FallbackPanel(options)>> ELSE returned
    IN  /\ error' = IF returned = <<>> THEN <<FallbackWarning>> ELSE error
        /\ scenePrompts' = specs
        /\ characterCanon' = canon
        /\ comicPanels' = InitialPanels(specs)
        /\ progress' = Progress("Generated prompts. Starting image generation...",
                                BasePercentage(app), 1, 0, Len(specs))
        /\ imageRequests' = [k \in 1..Len(specs) |-> 0]
        /\ i' = 0
        /\ attempt' = 0
        /\ pc' = "render"
        /\ UNCHANGED <<isLoading, timers>>

\* An entry list is well formed if every entry is an object with an image
\* prompt whose scene_number is absent or its 1-based position.
WellFormedEntries(scenes) ==
    \A k \in 1..Len(scenes) :
        /\ scenes[k].kind = "object"
        /\ scenes[k].image_prompt # UndefinedText
        /\ scenes[k].scene_number \in {0, k}

\* The instruction of the structured call of part_001 and of part_000 (canon
\* revision) asks for an object with the keys characterCanon and scenes;
\* every other instruction asks for an array.
RequestedShape(svcRev, service, resp) ==
    (service = GEMINI /\ svcRev \in {"p001", "p000a"}) => resp.shape = "object"

WellFormedResponse(svcRev, service, resp) ==
    /\ resp.kind = "text"
    /\ resp.shape # "nonjson"
    /\ resp.scenesKind = "array"
    /\ resp.scenes # <<>>
    /\ WellFormedEntries(resp.scenes)
    /\ RequestedShape(svcRev, service, resp)

Heard(resp, outcome, produced) ==
    [decomposed EXCEPT
        !.requests = @ + 1,
        !.allBad = @ /\ BadTextResponse(resp),
        !.outcome = outcome,
        !.wellFormed = WellFormedResponse(svc, options.generationService, resp),
        !.prompts = [k \in 1..Len(resp.scenes) |-> resp.scenes[k].image_prompt],
        !.produced = produced,
        !.response = IF decomposed.keepResponse THEN resp ELSE @]

\* What revision A keeps of the value generateScenePrompts returned.
ScenesTaken(appRev, result) ==
    IF appRev = "A" /\ ~result.isArray /\ result.canonKind = "missing"
    THEN <<>>
    ELSE result.scenes

CanonTaken(appRev, result) ==
    IF appRev = "A" /\ ~result.isArray /\ result.canonKind = "object"
    THEN [kind |-> "object", canon |-> result.canon]
    ELSE [kind |-> "missing", canon |-> NoCanon]

\* Structured backend: generateScenePrompts throws.
GeminiDecomposeThrows(resp) ==
    /\ pc = "decompose"
    /\ options.generationService = GEMINI
    /\ generateScenePrompts(svc, apiKey, options, resp).threw
    /\ Abort(generateScenePrompts(svc, apiKey, options, resp).message)
    /\ decomposed' = Heard(resp, "threw", <<>>)
    /\ UNCHANGED <<waited, build, stale, apiKey, options, characterDescriptions, descriptionRequests, scenePrompts,
                   characterCanon, i, attempt, lastError, lastRequest,
                   imageRequests, callResults>>

\* Structured backend: generateScenePrompts returns.
GeminiDecomposeReturns(resp) ==
    LET result == generateScenePrompts(svc, apiKey, options, resp)
    IN  /\ pc = "decompose"
        /\ options.generationService = GEMINI
        /\ ~result.threw
        /\ StartRendering(ScenesTaken(app, result), CanonTaken(app, result))
        /\ decomposed' = Heard(resp, "returned", result.scenes)
        /\ UNCHANGED <<waited, build, stale, apiKey, options, characterDescriptions, descriptionRequests, lastError,
                       lastRequest, callResults>>

\* Open backend: an attempt fails and the loop goes round again.
PollinationsDecomposeRetry(resp) ==
    /\ pc = "decompose"
    /\ options.generationService = POLLINATIONS
    /\ PollinationsTextAttempt(svc, options, resp).failed
    /\ attempt < TextMaxRetries(svc)
    /\ attempt' = attempt + 1
    /\ decomposed' = Heard(resp, "none", <<>>)
    /\ UNCHANGED <<waited, build, stale, apiKey, comicPanels, error, progress, isLoading, timers,
                   pc, options, characterDescriptions, descriptionRequests, scenePrompts,
                   characterCanon, i, lastError, lastRequest, imageRequests,
                   callResults>>

\* Open backend: generateScenePromptsWithPollinations returns the scenes of a
\* good attempt, or [] after its last attempt failed.
PollinationsDecomposeReturns(resp) ==
    LET result == PollinationsTextAttempt(svc, options, resp)
    IN  /\ pc = "decompose"
        /\ options.generationService = POLLINATIONS
        /\ result.failed => attempt = TextMaxRetries(svc)
        /\ StartRendering(result.scenes, [kind |-> "missing", canon |-> NoCanon])
        /\ decomposed' = Heard(resp, "returned", result.scenes)
        /\ UNCHANGED <<waited, build, stale, apiKey, options, characterDescriptions, descriptionRequests, lastError,
                       lastRequest, callResults>>

(***************************************************************************)
(* The image loop of handleComicGeneration.                                *)
(***************************************************************************)
panel == scenePrompts[i + 1]

\* The 7th to 9th arguments of the call of generateImageForPrompt as the
\* service revision receives them.  Revision A passes (characterCanon,
\* sceneCharacterNames, characterReferences); a service whose 7th parameter
\* is characterReferences receives the canon there, which is undefined
\* whenever that service's decomposition returned an array.
RefsArgument ==
    IF app = "B" \/ svc = "p000a" THEN options.characterReferences ELSE <<>>

\* The request the current attempt of the current panel puts on the wire.
CurrentRequest ==
    IF options.generationService = GEMINI
    THEN GeminiImageRequest(svc, apiKey, panel.image_prompt, options,
             characterCanon.kind, characterCanon.canon,
             sceneCharacterNames(characterCanon.kind, characterCanon.canon,
                                 panel.image_prompt),
             RefsArgument)
    ELSE PollinationsImageRequest(svc, panel.image_prompt, options.imageModel,
                                  options.aspectRatio)

ImageResult(resp) ==
    IF options.generationService = GEMINI
    THEN GeminiImageResult(svc, options.imageModel, resp)
    ELSE PollinationsImageResult(svc, resp)

\* The end of one iteration: next panel, or the end of the run.
NextPanel ==
    IF i + 1 < Len(scenePrompts)
    THEN /\ i' = i + 1
         /\ pc' = "render"
         /\ UNCHANGED <<progress, timers>>
    ELSE /\ i' = i
         /\ pc' = "complete"
         /\ progress' = CompleteProgress(Len(scenePrompts))
         /\ timers' = timers + 1

\* A variant without the await: the request of a panel is issued and the
\* loop goes on to the next panel at once.
ImageRequest_Unawaited ==
    /\ pc = "render"
    /\ CurrentRequest # NoRequest
    /\ progress' = PanelProgress(app, i, Len(scenePrompts))
    /\ attempt' = 0
    /\ lastError' = <<>>
    /\ lastRequest' = CurrentRequest
    /\ imageRequests' = [imageRequests EXCEPT ![i + 1] = @ + 1]
    /\ waited' = ImageRetryDelay(0)
    /\ IF i + 1 < Len(scenePrompts)
       THEN i' = i + 1 /\ pc' = "render"
       ELSE i' = 0 /\ pc' = "await_image"
    /\ UNCHANGED <<build, stale, apiKey, comicPanels, error, isLoading, timers, options,
                   characterDescriptions, descriptionRequests, scenePrompts,
                   characterCanon, callResults, decomposed>>

\* Top of an iteration: setProgress, then the first request of the call.
ImageRequest ==
    /\ pc = "render"
    /\ CurrentRequest # NoRequest
    /\ progress' = PanelProgress(app, i, Len(scenePrompts))
    /\ attempt' = 0
    /\ lastError' = <<>>
    /\ lastRequest' = CurrentRequest
    /\ imageRequests' = [imageRequests EXCEPT ![i + 1] = @ + 1]
    /\ waited' = ImageRetryDelay(0)
    /\ pc' = "await_image"
    /\ UNCHANGED <<build, stale, apiKey, comicPanels, error, isLoading, timers, options,
                   characterDescriptions, descriptionRequests, scenePrompts, characterCanon, i,
                   callResults, decomposed>>

\* An attempt fails inside the retry loop: keep lastError, wait, ask again.
ImageRetry(resp) ==
    /\ pc = "await_image"
    /\ ImageResult(resp).failed
    /\ attempt < ImageMaxRetries(svc, options.generationService)
    /\ attempt' = attempt + 1
    /\ lastError' = ImageResult(resp).message
    /\ waited' = ImageRetryDelay(attempt + 1)
    /\ lastRequest' = CurrentRequest
    /\ imageRequests' = [imageRequests EXCEPT ![i + 1] = @ + 1]
    /\ UNCHANGED <<build, stale, apiKey, comicPanels, error, progress, isLoading, timers,
                   pc, options, characterDescriptions, descriptionRequests, scenePrompts,
                   characterCanon, i, callResults, decomposed>>

\* The call returns a data URL: the try branch of the iteration.
ImageSucceeds(resp) ==
    /\ pc = "await_image"
    /\ ~ImageResult(resp).failed
    /\ comicPanels' = SetImageUrl(comicPanels, panel.scene_number, ImageResult(resp).url)
    /\ callResults' = Append(callResults, Ended(ImageResult(resp), resp))
    /\ attempt' = 0
    /\ lastError' = <<>>
    /\ NextPanel
    /\ UNCHANGED <<waited, build, stale, apiKey, error, isLoading, options,
                   characterDescriptions, descriptionRequests, scenePrompts, characterCanon,
                   lastRequest, imageRequests, decomposed>>

\* A variant without the try/catch of the iteration: the error of the image
\* call reaches the catch block of the handler.
ImageFails_Unhandled(resp) ==
    /\ pc = "await_image"
    /\ ImageResult(resp).failed
    /\ attempt = ImageMaxRetries(svc, options.generationService)
    /\ Abort(ExhaustedMessage(svc, options.generationService,
                              ImageResult(resp).message))
    /\ callResults' = Append(callResults, Ended(ImageFailed(ImageResult(resp).message), resp))
    /\ attempt' = 0
    /\ lastError' = <<>>
    /\ UNCHANGED <<waited, build, stale, apiKey, options, characterDescriptions,
                   descriptionRequests, scenePrompts, characterCanon, i,
                   lastRequest, imageRequests, decomposed>>

\* A variant that answers a failed panel by decomposing the story again.
ImageFails_Redecompose(resp) ==
    LET message == ExhaustedMessage(svc, options.generationService,
                                    ImageResult(resp).message)
    IN  /\ pc = "await_image"
        /\ ImageResult(resp).failed
        /\ attempt = ImageMaxRetries(svc, options.generationService)
        /\ comicPanels' = SetImageUrl(comicPanels, panel.scene_number, ImageError)
        /\ error' = AppendError(error, PanelErrorMessage(panel.scene_number, message))
        /\ callResults' = Append(callResults, Ended(ImageFailed(message), resp))
        /\ attempt' = 0
        /\ lastError' = <<>>
        /\ pc' = "decompose"
        /\ decomposed' = [decomposed EXCEPT !.calls = @ + 1, !.outcome = "none"]
        /\ UNCHANGED <<waited, build, stale, apiKey, isLoading, options, characterDescriptions,
                       descriptionRequests, scenePrompts, characterCanon,
                       lastRequest, imageRequests, i, progress, timers>>

\* A variant whose image call reports the failure of an earlier attempt.
ImageFails_EarlierError(resp) ==
    LET message == ExhaustedMessage(svc, options.generationService,
                       IF lastError # <<>> THEN lastError
                       ELSE ImageResult(resp).message)
    IN  /\ pc = "await_image"
        /\ ImageResult(resp).failed
        /\ attempt = ImageMaxRetries(svc, options.generationService)
        /\ comicPanels' = SetImageUrl(comicPanels, panel.scene_number, ImageError)
        /\ error' = AppendError(error, PanelErrorMessage(panel.scene_number, message))
        /\ callResults' = Append(callResults, Ended(ImageFailed(message), resp))
        /\ attempt' = 0
        /\ lastError' = <<>>
        /\ NextPanel
        /\ UNCHANGED <<waited, build, stale, apiKey, isLoading, options, characterDescriptions,
                       descriptionRequests, scenePrompts, characterCanon,
                       lastRequest, imageRequests, decomposed>>

\* The call throws: the catch branch of the iteration.
ImageFails(resp) ==
    LET message == ExhaustedMessage(svc, options.generationService,
                                    ImageResult(resp).message)
    IN  /\ pc = "await_image"
        /\ ImageResult(resp).failed
        /\ attempt = ImageMaxRetries(svc, options.generationService)
        /\ comicPanels' = SetImageUrl(comicPanels, panel.scene_number, ImageError)
        /\ error' = AppendError(error, PanelErrorMessage(panel.scene_number, message))
        /\ callResults' = Append(callResults, Ended(ImageFailed(message), resp))
        /\ attempt' = 0
        /\ lastError' = <<>>
        /\ NextPanel
        /\ UNCHANGED <<waited, build, stale, apiKey, isLoading, options, characterDescriptions, descriptionRequests,
                       scenePrompts, characterCanon, lastRequest,
                       imageRequests, decomposed>>

\* setTimeout(() => setIsLoading(false), 2000)
TimerFires ==
    /\ timers > 0
    /\ timers' = timers - 1
    /\ isLoading' = FALSE
    /\ UNCHANGED <<waited, build, stale, apiKey, comicPanels, error, progress, pc, options,
                   characterDescriptions, descriptionRequests, scenePrompts, characterCanon, i,
                   attempt, lastError, lastRequest, imageRequests, callResults,
                   decomposed>>

Next ==
    \/ \E key \in ApiKeys : SetApiKey(key)
    \/ \E opts \in StoryOptions : SubmitRejected(opts)
    \/ \E opts \in StoryOptions : Submit(opts)
    \/ \E k \in 1..3, ok \in BOOLEAN : DescriptionReturns(k, ok)
    \/ PrePass
    \/ \E resp \in RunTextResponses : GeminiDecomposeThrows(resp)
    \/ \E resp \in RunTextResponses : GeminiDecomposeReturns(resp)
    \/ \E resp \in RunTextResponses : PollinationsDecomposeRetry(resp)
    \/ \E resp \in RunTextResponses : PollinationsDecomposeReturns(resp)
    \/ ImageRequest
    \/ \E resp \in ImageResponses : ImageRetry(resp)
    \/ \E resp \in ImageResponses : ImageSucceeds(resp)
    \/ \E resp \in ImageResponses : ImageFails(resp)
    \/ TimerFires

Spec == Init /\ [][Next]_vars

\* The steps of a run: a backend call returns or fails and the handler runs
\* on to its next await.
RunStep ==
    \/ \E k \in 1..3, ok \in BOOLEAN : DescriptionReturns(k, ok)
    \/ PrePass
    \/ \E resp \in RunTextResponses : GeminiDecomposeThrows(resp)
    \/ \E resp \in RunTextResponses : GeminiDecomposeReturns(resp)
    \/ \E resp \in RunTextResponses : PollinationsDecomposeRetry(resp)
    \/ \E resp \in RunTextResponses : PollinationsDecomposeReturns(resp)
    \/ ImageRequest
    \/ \E resp \in ImageResponses : ImageRetry(resp)
    \/ \E resp \in ImageResponses : ImageSucceeds(resp)
    \/ \E resp \in ImageResponses : ImageFails(resp)

\* The runs of a user whose credential is in place, so that every submission
\* passes the credential check.
FairInit == Init /\ apiKey = "AIzaKey"

FairNext ==
    \/ \E opts \in StoryOptions : Submit(opts)
    \/ RunStep
    \/ TimerFires

\* Every backend call eventually returns or fails, and the event loop then
\* resumes the handler.
FairSpec == FairInit /\ [][FairNext]_vars /\ WF_vars(RunStep)

(***************************************************************************)
(* The runs with the Dismiss button of the message box, which is rendered  *)
(* whenever the message log is not empty, during a run as well.            *)
(***************************************************************************)
\* <button onClick={() => setError(null)}>Dismiss</button>
Dismiss ==
    /\ error # <<>>
    /\ error' = <<>>
    /\ UNCHANGED <<waited, build, stale, apiKey, comicPanels, progress, isLoading, timers,
                   pc, options, characterDescriptions, descriptionRequests,
                   scenePrompts, characterCanon, i, attempt, lastError,
                   lastRequest, imageRequests, callResults, decomposed>>

DismissNext ==
    \/ \E opts \in StoryOptions : Submit(opts)
    \/ RunStep
    \/ TimerFires
    \/ Dismiss

DismissSpec == FairInit /\ [][DismissNext]_vars

(***************************************************************************)
(* The runs over every aspect ratio of the form, and over a value outside  *)
(* the enumeration, with one text response of each kind.                   *)
(***************************************************************************)
AspectOptions ==
    { o \in [ story : {<<"Once upon a time">>},
              style : {"Manga"},
              era : {"Modern"},
              aspectRatio : {"SQUARE", "PORTRAIT", "LANDSCAPE", "CINEMA"},
              includeCaptions : {FALSE},
              generationService : {GEMINI, POLLINATIONS},
              imageModel : GeminiImageModels \cup PollinationsImageModels,
              characterReferences : {<<>>} ] :
        IF o.generationService = GEMINI
        THEN o.imageModel \in GeminiImageModels
        ELSE o.imageModel \in PollinationsImageModels }

AspectNext ==
    LET scene == [ kind |-> "object", scene_number |-> 1, image_prompt |-> PromptCat,
                   caption |-> "A caption", dialogues |-> <<"Zara: hi">> ]
        responses == { FailedResponse("neterr"), ArrayResponse(<<scene>>),
                       ObjectResponse("array", <<scene>>, "missing", NoCanon) }
    IN  \/ \E opts \in AspectOptions : Submit(opts)
        \/ \E resp \in responses : GeminiDecomposeThrows(resp)
        \/ \E resp \in responses : GeminiDecomposeReturns(resp)
        \/ \E resp \in responses : PollinationsDecomposeRetry(resp)
        \/ \E resp \in responses : PollinationsDecomposeReturns(resp)
        \/ ImageRequest
        \/ \E resp \in ImageResponses : ImageRetry(resp)
        \/ \E resp \in ImageResponses : ImageSucceeds(resp)
        \/ \E resp \in ImageResponses : ImageFails(resp)
        \/ TimerFires

AspectSpec == FairInit /\ [][AspectNext]_vars

(***************************************************************************)
(* The decomposition alone, over responses whose entries miss any of their *)
(* fields or are not objects; the runs stop where the image loop begins    *)
(* and keep the response they received.                                    *)
(***************************************************************************)
DecomposeEntries ==
    ObjectEntries(0..MaxSceneNumber, {PromptCat, UndefinedText, <<>>},
                  {"A caption"}, {<<"Zara: hi">>, NotAnArray})
    \cup {NullEntry, PrimitiveEntry}

DecomposeTextResponses ==
    { FailedResponse("neterr"), FailedResponse("status"), FailedResponse("text") }
    \cup { ArrayResponse(s) : s \in SeqUpTo(DecomposeEntries, MaxScenes) }
    \cup { ObjectResponse("array", s, "missing", NoCanon) :
             s \in SeqUpTo(DecomposeEntries, MaxScenes) }
    \cup { ObjectResponse("array", s, "object",
                           << [name |-> ZaraName, appearance |-> ZaraDescription,
                               IVAP |-> <<>>] >>) :
             s \in SeqUpTo(DecomposeEntries, 1) }
    \cup { ObjectResponse(k, <<>>, "missing", NoCanon) : k \in {"missing", "string"} }
    \cup { Fenced(ArrayResponse(s)) : s \in SeqUpTo(DecomposeEntries, 1) }
    \cup { Fenced(ObjectResponse("array", s, "missing", NoCanon)) :
             s \in SeqUpTo(DecomposeEntries, 1) }

\* The attempts before the last one end by a failure of the request.
FailedRequests == { FailedResponse("neterr"), FailedResponse("status") }

DecomposeInit ==
    /\ InitialState([NoDecomposition EXCEPT !.keepResponse = TRUE])
    /\ apiKey = "AIzaKey"

DecomposeNext ==
    \/ \E opts \in StoryOptions : Submit(opts)
    \/ \E k \in 1..3, ok \in BOOLEAN : DescriptionReturns(k, ok)
    \/ PrePass
    \/ \E resp \in DecomposeTextResponses : GeminiDecomposeThrows(resp)
    \/ \E resp \in DecomposeTextResponses : GeminiDecomposeReturns(resp)
    \/ \E resp \in FailedRequests : PollinationsDecomposeRetry(resp)
    \/ \E resp \in DecomposeTextResponses : PollinationsDecomposeReturns(resp)

DecomposeSpec == DecomposeInit /\ [][DecomposeNext]_vars

(***************************************************************************)
(* Overlapping invocations.  handleComicGeneration itself has no guard     *)
(* against being called while an earlier call of it still awaits: the      *)
(* guard is the disabled button of the form.  Here a caller invokes it     *)
(* again while an image call is outstanding; the earlier invocation runs   *)
(* on with its own locals and the shared React state.                      *)
(***************************************************************************)
\* handleComicGeneration is called while the running invocation awaits an
\* image call.
Resubmit(opts) ==
    /\ pc = "await_image"
    /\ stale = NoStale
    /\ timers = 0
    /\ opts = options
    /\ StartRun(opts)
    /\ stale' = [ pc |-> "await_image",
                  sceneNumbers |->
                      [k \in 1..Len(scenePrompts) |-> scenePrompts[k].scene_number],
                  i |-> i, attempt |-> attempt,
                  service |-> options.generationService,
                  imageModel |-> options.imageModel ]
    /\ UNCHANGED <<build, apiKey, timers>>

StaleImageResult(resp) ==
    IF stale.service = GEMINI
    THEN GeminiImageResult(svc, stale.imageModel, resp)
    ELSE PollinationsImageResult(svc, resp)

\* The rest of the overtaken invocation's iteration: the next panel's
\* setProgress and request, or the end of its loop.
StaleNextPanel ==
    IF stale.i + 1 < Len(stale.sceneNumbers)
    THEN /\ progress' = PanelProgress(app, stale.i + 1, Len(stale.sceneNumbers))
         /\ stale' = [stale EXCEPT !.i = @ + 1, !.attempt = 0]
         /\ timers' = timers
    ELSE /\ progress' = CompleteProgress(Len(stale.sceneNumbers))
         /\ stale' = [NoStale EXCEPT !.pc = "done"]
         /\ timers' = timers + 1

\* An attempt of the overtaken invocation's image call fails inside the
\* retry loop.
StaleImageRetry(resp) ==
    /\ stale.pc = "await_image"
    /\ StaleImageResult(resp).failed
    /\ stale.attempt < ImageMaxRetries(svc, stale.service)
    /\ stale' = [stale EXCEPT !.attempt = @ + 1]
    /\ UNCHANGED <<waited, build, apiKey, comicPanels, error, progress, isLoading, timers,
                   pc, options, characterDescriptions, descriptionRequests,
                   scenePrompts, characterCanon, i, attempt, lastError,
                   lastRequest, imageRequests, callResults, decomposed>>

\* The overtaken invocation's image call returns.
StaleImageSucceeds(resp) ==
    /\ stale.pc = "await_image"
    /\ ~StaleImageResult(resp).failed
    /\ comicPanels' = SetImageUrl(comicPanels, stale.sceneNumbers[stale.i + 1],
                                  StaleImageResult(resp).url)
    /\ StaleNextPanel
    /\ UNCHANGED <<waited, build, apiKey, error, isLoading, pc, options,
                   characterDescriptions, descriptionRequests, scenePrompts,
                   characterCanon, i, attempt, lastError, lastRequest,
                   imageRequests, callResults, decomposed>>

\* The overtaken invocation's image call throws.
StaleImageFails(resp) ==
    LET message == ExhaustedMessage(svc, stale.service, StaleImageResult(resp).message)
    IN  /\ stale.pc = "await_image"
        /\ StaleImageResult(resp).failed
        /\ stale.attempt = ImageMaxRetries(svc, stale.service)
        /\ comicPanels' = SetImageUrl(comicPanels, stale.sceneNumbers[stale.i + 1],
                                      ImageError)
        /\ error' = AppendError(error,
                         PanelErrorMessage(stale.sceneNumbers[stale.i + 1], message))
        /\ StaleNextPanel
        /\ UNCHANGED <<waited, build, apiKey, isLoading, pc, options,
                       characterDescriptions, descriptionRequests, scenePrompts,
                       characterCanon, i, attempt, lastError, lastRequest,
                       imageRequests, callResults, decomposed>>

ReentrantInit == Init /\ apiKey = "AIzaKey" /\ build = <<"A", "main">>

\* One caller on the structured backend, without character references and
\* captions, who invokes the handler once more while its first invocation
\* awaits the image call of its last panel.
ReentrantNext ==
    \/ \E opts \in StoryOptions :
          /\ pc = "idle"
          /\ opts.generationService = GEMINI
          /\ opts.characterReferences = <<>>
          /\ ~opts.includeCaptions
          /\ Submit(opts)
    \/ \E resp \in RunTextResponses : GeminiDecomposeThrows(resp)
    \/ \E resp \in RunTextResponses : GeminiDecomposeReturns(resp)
    \/ ImageRequest
    \/ \E resp \in ImageResponses : ImageRetry(resp)
    \/ \E resp \in ImageResponses : ImageSucceeds(resp)
    \/ \E resp \in ImageResponses : ImageFails(resp)
    \/ TimerFires
    \/ \E opts \in StoryOptions : i + 1 = Len(scenePrompts) /\ Resubmit(opts)
    \/ \E resp \in ImageResponses : StaleImageRetry(resp)
    \/ \E resp \in ImageResponses : StaleImageSucceeds(resp)
    \/ \E resp \in ImageResponses : StaleImageFails(resp)

ReentrantSpec == ReentrantInit /\ [][ReentrantNext]_vars

(***************************************************************************)
(* Properties.                                                             *)
(***************************************************************************)
Rendering == pc \in {"render", "await_image"}

Failed(record) == record.imageUrl = ImageError
Pending(record) == record.imageUrl = ImagePending
Resolved(record) == ~Failed(record) /\ ~Pending(record)

DistinctSceneNumbers(specs) ==
    \A j, k \in 1..Len(specs) :
        specs[j].scene_number = specs[k].scene_number => j = k

\* C1: a panel image call whose every attempt failed has issued exactly 3
\* image requests (1 initial + 2 retries) when the orchestrator marks the
\* panel failed, on either backend.
C1_RetryBound ==
    \A k \in 1..Len(callResults) :
        callResults[k].failed => imageRequests[k] = 3

\* C2: when every decomposition response was a failed request, a non-JSON
\* text or an empty array, the run continues with exactly one record, the
\* fallback panel (story text with the style suffix, caption signalling the
\* failure), and the warning is in the run-level message when rendering
\* starts; on either backend.
C2_Fallback ==
    (decomposed.outcome # "none" /\ decomposed.allBad) =>
        /\ pc # "aborted"
        /\ scenePrompts = <<FallbackPanel(options)>>
        /\ (Rendering => Len(comicPanels) = 1
                         /\ comicPanels[1].image_prompt =
                              WithStyleSuffix(options.story, options.style, options.era)
                         /\ comicPanels[1].caption = "Fallback: Full Story"
                         /\ error[1] = FallbackWarning)

\* The error log a run over `specs` with the call results `results` ends with.
RECURSIVE PanelErrorLines(_, _)
PanelErrorLines(specs, results) ==
    IF results = <<>> THEN <<>>
    ELSE (IF results[1].failed
          THEN <<PanelErrorMessage(specs[1].scene_number, results[1].message)>>
          ELSE <<>>)
         \o PanelErrorLines(Tail(specs), Tail(results))

\* C3: when a run over N panels with distinct scene numbers completes,
\* exactly the records whose image call failed are in the failed state, every
\* other record is resolved, and the error log holds, after the fallback
\* warning if there is one, exactly one entry per failed panel, naming that
\* panel, in array order.
C3_PartialFailure ==
    [][ (pc = "await_image" /\ pc' = "complete" /\ DistinctSceneNumbers(scenePrompts))
        => /\ Len(comicPanels') = Len(scenePrompts)
           /\ Len(callResults') = Len(scenePrompts)
           /\ \A k \in 1..Len(scenePrompts) :
                 /\ callResults'[k].failed <=> Failed(comicPanels'[k])
                 /\ ~callResults'[k].failed <=> Resolved(comicPanels'[k])
           /\ error' = (IF scenePrompts = <<FallbackPanel(options)>>
                        THEN <<FallbackWarning>> ELSE <<>>)
                       \o PanelErrorLines(scenePrompts, callResults') ]_vars

C3_Witness ==
    /\ pc = "complete"
    /\ Len(scenePrompts) = 2
    /\ DistinctSceneNumbers(scenePrompts)
    /\ Len(callResults) = 2
    /\ callResults[1].failed
    /\ ~callResults[2].failed
    /\ Failed(comicPanels[1])
    /\ Resolved(comicPanels[2])
    /\ error = <<PanelErrorMessage(scenePrompts[1].scene_number, callResults[1].message)>>

\* C4: a run enters the error-terminal state (panel set cleared, progress
\* cleared) only if the required credential is missing; a failed
\* decomposition never takes it there, on either backend.
C4_OnlyConfigurationHalts ==
    [][ (pc # "aborted" /\ pc' = "aborted") => Trim(apiKey) = "" ]_vars

\* C5: a failed render of the panel at array position i sets the record at
\* position i to failed and leaves the image state of every other record as
\* it was, whatever scene numbers the panel list carries.
C5_FailureTouchesOnePanel ==
    [][ (pc = "await_image" /\ Len(callResults') = Len(callResults) + 1
         /\ callResults'[Len(callResults')].failed)
        => /\ Failed(comicPanels'[i + 1])
           /\ \A k \in 1..Len(comicPanels) :
                 k # i + 1 => comicPanels'[k].imageUrl = comicPanels[k].imageUrl ]_vars

\* C6: while a run renders, a record that is resolved stays resolved with
\* the same payload, and the record set is not cleared.
C6_ResolvedStaysResolved ==
    [][ Rendering =>
          \A k \in 1..Len(comicPanels) :
              Resolved(comicPanels[k]) =>
                  /\ k <= Len(comicPanels')
                  /\ comicPanels'[k].imageUrl = comicPanels[k].imageUrl ]_vars

\* C7: with caption inclusion off, every panel spec a decomposition call
\* returns has caption null and no dialogues, on either backend.
C7_CaptionsOff ==
    ~options.includeCaptions =>
        \A k \in 1..Len(decomposed.produced) :
            /\ decomposed.produced[k].caption = NULL
            /\ decomposed.produced[k].dialogues = <<>>

\* The image prompt the mapping of a revision makes of a raw prompt.
MappedPrompt(service, prompt) ==
    IF service = POLLINATIONS
    THEN WithStyleSuffix(prompt, options.style, options.era)
    ELSE prompt

ResolvedCharacters ==
    { [name |-> characterCanon.canon[k].name,
       description |-> CanonDescription(characterCanon.canon, characterCanon.canon[k].name)] :
          k \in { j \in 1..Len(characterCanon.canon) :
                    CanonDescription(characterCanon.canon,
                                     characterCanon.canon[j].name) # <<>> } }
    \cup { [name |-> characterDescriptions[k].name,
            description |-> characterDescriptions[k].description] :
              k \in 1..Len(characterDescriptions) }

\* C9: the prompt of an image request holds the resolved description of a
\* character exactly if the panel's image prompt names the character
\* (case-insensitively); on the structured and on the open path.
C9_CharacterConsistency ==
    pc = "await_image" =>
        \A c \in ResolvedCharacters :
            Includes(ToLowerCase(panel.image_prompt), ToLowerCase(c.name))
                <=> Includes(lastRequest.prompt, c.description)

\* C10: every image request, of every attempt of every panel, carries the
\* seed FIXED_IMAGE_SEED.
C10_FixedSeed ==
    lastRequest # NoRequest => lastRequest.seed = FIXED_IMAGE_SEED

\* The credential is required by a submission: the structured backend is
\* chosen, or the description pre-pass is used.
CredentialRequired(appRev, opts) ==
    opts.generationService = GEMINI \/ needsCharacterPreProcessing(appRev, opts)

\* Everything the model records of the backend calls of a run.
BackendCalls == <<descriptionRequests, decomposed, imageRequests, lastRequest>>

\* The messages with which a service function reports a missing credential.
ServiceCredentialMessages ==
    { <<"API Key is required to generate scene prompts.">>,
      <<"API Key is required.">>,
      <<"API Key is required for image generation.">> }

\* C11: a run that requires the credential starts only with a non-blank
\* credential; the rejection of a submission sets the configuration error
\* and issues no backend call (description, decomposition or image); and no
\* run is ended by a service function's own report of a missing credential.
C11_CredentialCheckedFirst ==
    [][ /\ (Idle /\ ~Idle' /\ CredentialRequired(app, options'))
              => Trim(apiKey') # ""
        /\ (error' # error /\ error' = <<CredentialMessage(app)>>)
              => /\ Trim(apiKey) = ""
                 /\ pc' = pc
                 /\ BackendCalls' = BackendCalls
                 /\ comicPanels' = comicPanels
        /\ (pc # "aborted" /\ pc' = "aborted")
              => error'[1] \notin ServiceCredentialMessages
        /\ (pc = "await_image" /\ Len(error') > Len(error))
              => \A m \in ServiceCredentialMessages :
                    ~Includes(error'[Len(error')], m) ]_vars

C11_Witness ==
    /\ app = "B"
    /\ apiKey = " "
    /\ error = <<CredentialMessage(app)>>
    /\ pc = "idle"
    /\ BackendCalls = <<(<<>>), NoDecomposition, (<<>>), NoRequest>>

\* The array positions whose image call has been issued and has not ended.
InFlight ==
    { k \in 1..Len(imageRequests) : imageRequests[k] > 0 /\ k > Len(callResults) }

\* C12: at every moment of a run at most one image call is in flight, it is
\* the call of the loop's current array position, and the call of a position
\* has been issued only if the calls of all earlier positions have ended;
\* whatever scene numbers the panels carry.
C12_SequentialRendering ==
    /\ Cardinality(InFlight) <= 1
    /\ \A k \in 1..Len(imageRequests) :
          imageRequests[k] > 0 => k <= Len(callResults) + 1
    /\ pc = "await_image" => InFlight = {i + 1}
    /\ pc # "await_image" => InFlight = {}

C12_Witness ==
    /\ pc = "await_image"
    /\ Len(scenePrompts) = 2
    /\ scenePrompts[1].scene_number = 2
    /\ scenePrompts[2].scene_number = 1
    /\ Len(callResults) = 1
    /\ InFlight = {2}

\* C13: when every backend call eventually returns or fails, a run that
\* passed the credential check reaches a terminal state; only the
\* decomposition step takes a run to the error-terminal state, so a run
\* whose decomposition returned reaches Complete, with progress 100 and
\* current panel = total panels, after the call of its last panel ended,
\* whatever the outcomes of its panels.
C13_RunTerminates ==
    /\ (~Idle) ~> Idle
    /\ [][ (pc # "aborted" /\ pc' = "aborted") => pc = "decompose" ]_vars
    /\ [](pc = "complete" =>
            /\ progress = CompleteProgress(Len(scenePrompts))
            /\ progress.num = 100 * progress.den
            /\ progress.currentPanel = progress.totalPanels
            /\ progress.totalPanels = Len(comicPanels)
            /\ Len(callResults) = Len(scenePrompts))

C13_Witness ==
    /\ pc = "complete"
    /\ Len(callResults) = 2
    /\ callResults[1].failed
    /\ callResults[2].failed
    /\ progress.currentPanel = 2

\* C14: when a decomposition call has ended and every response it received
\* was a failed request, a non-JSON text or an empty array, the call has
\* returned, not thrown, and what it returned is the empty list; on either
\* backend.
C14_EmptyResultNotThrow ==
    (decomposed.outcome # "none" /\ decomposed.allBad) =>
        /\ decomposed.outcome = "returned"
        /\ decomposed.produced = <<>>

\* C15: a run that passed the credential check invokes the decomposition
\* exactly once: the invocation is made when the run reaches its
\* decomposition step and is never repeated, neither after the fallback nor
\* after a failed panel; and an image request is on record only if that
\* invocation has returned.
C15_DecomposeOnce ==
    /\ decomposed.calls <= 1
    /\ pc = "prepass" => decomposed.calls = 0
    /\ pc \in {"decompose", "render", "await_image", "complete", "aborted"}
          => decomposed.calls = 1
    /\ pc = "decompose" => imageRequests = <<>> /\ lastRequest = NoRequest
    /\ (lastRequest # NoRequest \/ \E k \in 1..Len(imageRequests) : imageRequests[k] > 0)
          => decomposed.outcome = "returned"

C15_Witness ==
    /\ pc = "complete"
    /\ scenePrompts = <<FallbackPanel(options)>>
    /\ error[1] = FallbackWarning
    /\ Len(callResults) = 1
    /\ callResults[1].failed
    /\ decomposed.calls = 1
    /\ decomposed.requests = 3

\* A response that is no image: a non-2xx status, on the open backend a
\* declared content type that is not an image type, or an empty or missing
\* payload (on the structured backend also an empty image list).
NotAnImage(service, resp) ==
    \/ resp.kind = "status"
    \/ resp.kind = "ok" /\ service = POLLINATIONS /\ resp.contentType # "image/jpeg"
    \/ resp.kind = "ok" /\ service = GEMINI /\ resp.images = 0
    \/ resp.kind = "ok" /\ resp.data = ""

\* C16: an image call whose last attempt received a response that is no
\* image has failed, and the record of its panel holds no resolved payload
\* from it.
C16_BadResponseFails ==
    \A k \in 1..Len(callResults) :
        NotAnImage(options.generationService, callResults[k].response)
            => /\ callResults[k].failed
               /\ callResults[k].url = ImagePending

\* C17: when an image call fails, its error message holds the message of
\* the failure of its last attempt and not that of a different failure of
\* the attempt before; the handler catches the error in the iteration: the
\* error log gains exactly one line, the line of that panel holding that
\* message, the panel set is kept, and the loop goes on to the next panel or
\* to the end of the run.
C17_LastErrorReported ==
    [][ (pc = "await_image" /\ Len(callResults') = Len(callResults) + 1
         /\ callResults'[Len(callResults')].failed)
        => LET ended == callResults'[Len(callResults')]
               last == ImageResult(ended.response).message
           IN  /\ Includes(ended.message, last)
               /\ (lastError # <<>> /\ ~Includes(last, lastError))
                     => ~Includes(ended.message, lastError)
               /\ Len(error') = Len(error) + 1
               /\ error'[Len(error')] =
                     PanelErrorMessage(panel.scene_number, ended.message)
               /\ Len(comicPanels') = Len(comicPanels)
               /\ pc' = IF i + 1 < Len(scenePrompts) THEN "render" ELSE "complete"
               /\ i' = IF i + 1 < Len(scenePrompts) THEN i + 1 ELSE i ]_vars

C17_Witness ==
    /\ pc = "complete"
    /\ Len(callResults) = 2
    /\ callResults[1].failed
    /\ imageRequests[1] = 3
    /\ Includes(callResults[1].message, <<"Image generation returned no images.">>)
    /\ Includes(error[1], <<"Image generation returned no images.">>)
    /\ ~callResults[2].failed

\* C18: once a second run has started while an image call of the first run
\* was outstanding, no result and no failure of the first run changes the
\* panel records, the error log or the progress of the second run.
C18_StaleResultsIgnored ==
    [][ (stale.pc = "await_image" /\ stale' # stale)
        => /\ comicPanels' = comicPanels
           /\ error' = error
           /\ progress' = progress ]_vars

\* C19: in a run with the description pre-pass, while the request of any
\* reference is outstanding the run is still in the pre-pass: the
\* decomposition has not been invoked and no decomposition request has been
\* issued; the requests settle in any order.
C19_DescriptionsBeforeDecomposition ==
    (\E k \in 1..Len(descriptionRequests) : descriptionRequests[k] = "outstanding")
        => /\ pc = "prepass"
           /\ decomposed.calls = 0
           /\ decomposed.requests = 0

C19_Witness ==
    /\ pc = "decompose"
    /\ decomposed.calls = 1
    /\ descriptionRequests = <<"failed", "skipped", "described">>

\* The names of the references that have a name and an image and whose
\* description request succeeded, in the order of the reference list.
DescribedNames(refs, requests) ==
    LET positions ==
          SelectSeq([k \in 1..Len(refs) |-> k],
                    LAMBDA k : /\ refs[k].hasImage
                               /\ refs[k].name # <<>>
                               /\ k <= Len(requests)
                               /\ requests[k] = "described")
    IN  [j \in 1..Len(positions) |-> refs[positions[j]].name]

\* C20: every reference with a name and an image gets a description
\* request; whichever of the requests fail and in whatever order they
\* settle, the pre-pass returns (the run goes on to the decomposition and
\* is not aborted), and what it returns names exactly the references with a
\* name and an image whose request succeeded, in the order of the list.
C20_DescriptionFailuresIsolated ==
    [][ /\ pc = "prepass" =>
              /\ pc' \in {"prepass", "decompose"}
              /\ \A k \in 1..Len(descriptionRequests) :
                    descriptionRequests[k] = "skipped"
                        <=> ~(options.characterReferences[k].hasImage
                              /\ options.characterReferences[k].name # <<>>)
        /\ (pc = "prepass" /\ pc' = "decompose") =>
              /\ Len(descriptionRequests) = Len(options.characterReferences)
              /\ [k \in 1..Len(characterDescriptions') |->
                      characterDescriptions'[k].name]
                   = DescribedNames(options.characterReferences, descriptionRequests)
              /\ \A k \in 1..Len(characterDescriptions') :
                    characterDescriptions'[k].description # <<>> ]_vars

C20_Witness ==
    /\ pc = "decompose"
    /\ descriptionRequests = <<"failed", "skipped", "described">>
    /\ Len(characterDescriptions) = 1
    /\ characterDescriptions[1].name = <<"C", "y">>

\* The names of the submitted references that lack a name or an image.
IncompleteReferences ==
    { options.characterReferences[k].name :
        k \in { j \in 1..Len(options.characterReferences) :
                  \/ ~options.characterReferences[j].hasImage
                  \/ options.characterReferences[j].name = <<>> } }

Elements(seq) == { seq[k] : k \in 1..Len(seq) }

\* C21: a character reference without a name or without an image takes no
\* part in consistency resolution: no description request is issued for it,
\* the decomposition request neither attaches nor names it, and no image
\* request attaches it.
C21_IncompleteReferencesIgnored ==
    /\ \A k \in 1..Len(descriptionRequests) :
          options.characterReferences[k].name \in IncompleteReferences
              => descriptionRequests[k] = "skipped"
    /\ Elements(decomposed.request.attached) \cap IncompleteReferences = {}
    /\ Elements(decomposed.request.named) \cap IncompleteReferences = {}
    /\ Elements(lastRequest.refs) \cap IncompleteReferences = {}

\* An entry that can be coerced into a panel spec: an object that carries an
\* image prompt.
Coercible(entry) == entry.kind = "object" /\ entry.image_prompt # UndefinedText

\* The last response of an ended decomposition call is on record and
\* decodes, in the shape the revision asks for and without a fence, to a
\* non-empty entry array.
HeardArray ==
    /\ decomposed.keepResponse
    /\ decomposed.outcome # "none"
    /\ decomposed.response.kind = "text"
    /\ decomposed.response.shape # "nonjson"
    /\ decomposed.response.scenesKind = "array"
    /\ decomposed.response.scenes # <<>>
    /\ ~decomposed.response.fenced
    /\ RequestedShape(svc, options.generationService, decomposed.response)

\* C22: when the entry array of the response holds entries that are not
\* objects or that lack an image prompt, the decomposition call returns (it
\* does not throw, and no attempt of it fails on the entries), and the panel
\* specs it returns are those of the coercible entries, in response order,
\* none of them without an image prompt.
C22_MalformedEntriesDropped ==
    (HeardArray /\ \E k \in 1..Len(decomposed.response.scenes) :
                       ~Coercible(decomposed.response.scenes[k]))
        => /\ decomposed.outcome = "returned"
           /\ [k \in 1..Len(decomposed.produced) |->
                   decomposed.produced[k].image_prompt]
                = [k \in 1..Len(SelectSeq(decomposed.response.scenes, Coercible)) |->
                     MappedPrompt(options.generationService,
                         SelectSeq(decomposed.response.scenes, Coercible)[k].image_prompt)]

\* C23: in the panel spec list a decomposition call returns, every scene
\* number is a positive integer and no two panel specs carry the same one,
\* whatever scene_number values (repeated, zero or missing, out of order)
\* the response carries.
C23_SceneNumbersDistinct ==
    decomposed.outcome = "returned" =>
        /\ \A k \in 1..Len(decomposed.produced) :
              decomposed.produced[k].scene_number \in Nat \ {0}
        /\ DistinctSceneNumbers(decomposed.produced)

\* An image prompt that is absent (undefined) or the empty string.
EmptyPrompt(prompt) == prompt = UndefinedText \/ prompt = <<>>

\* C24: no panel spec a decomposition call returns, and no panel spec the
\* image loop is started with, has an absent or empty image prompt, whatever
\* the backend answered.
C24_ImagePromptNeverEmpty ==
    /\ decomposed.outcome = "returned" =>
          \A k \in 1..Len(decomposed.produced) :
              ~EmptyPrompt(decomposed.produced[k].image_prompt)
    /\ Rendering =>
          \A k \in 1..Len(scenePrompts) : ~EmptyPrompt(scenePrompts[k].image_prompt)

Shapes(scenes) ==
    LET plain == { ArrayResponse(scenes),
                   ObjectResponse("array", scenes, "missing", NoCanon),
                   ObjectResponse("array", scenes, "object",
                       << [name |-> ZaraName, appearance |-> ZaraDescription,
                           IVAP |-> <<>>] >>) }
    IN  plain \cup { Fenced(r) : r \in plain }

\* What the decomposition call of the current run makes of `resp`: whether
\* it yields panel specs at all, and which.
Yields(resp) ==
    IF options.generationService = GEMINI
    THEN [ ok |-> ~generateScenePrompts(svc, apiKey, options, resp).threw,
           scenes |-> generateScenePrompts(svc, apiKey, options, resp).scenes ]
    ELSE [ ok |-> ~PollinationsTextAttempt(svc, options, resp).failed,
           scenes |-> PollinationsTextAttempt(svc, options, resp).scenes ]

\* C26: when the response of an ended decomposition call carries a
\* non-empty list of object entries, as a bare array, as an object with a
\* scenes key (with or without a character canon) or inside a markdown
\* fence, the call returns panel specs, and it returns the same panel specs
\* for that list in each of the other shapes; and a response that cannot be
\* decoded does not make the call throw.
C26_ResponseShapes ==
    /\ ( /\ decomposed.keepResponse
         /\ decomposed.outcome # "none"
         /\ decomposed.response \in Shapes(decomposed.response.scenes)
         /\ decomposed.response.scenes # <<>>
         /\ \A k \in 1..Len(decomposed.response.scenes) :
               decomposed.response.scenes[k].kind = "object" )
          => /\ decomposed.outcome = "returned"
             /\ \A r \in Shapes(decomposed.response.scenes) :
                   /\ Yields(r).ok
                   /\ Yields(r).scenes = decomposed.produced
    /\ ( /\ decomposed.keepResponse
         /\ decomposed.outcome # "none"
         /\ decomposed.response.kind = "text"
         /\ decomposed.response.shape = "nonjson" )
          => decomposed.outcome = "returned"

\* C27: while a run over panels with distinct scene numbers renders, and
\* when it has completed, the records that are no longer pending are exactly
\* those of the array positions whose image call has ended; they form a
\* prefix of the record array, which grows by one record with each panel.
C27_FillLeftToRight ==
    ((Rendering \/ pc = "complete") /\ DistinctSceneNumbers(scenePrompts)) =>
        /\ Len(comicPanels) = Len(scenePrompts)
        /\ \A k \in 1..Len(comicPanels) :
              ~Pending(comicPanels[k]) <=> k <= Len(callResults)
        /\ \A j \in 1..Len(comicPanels) :
              ~Pending(comicPanels[j]) =>
                  \A k \in 1..(j - 1) : ~Pending(comicPanels[k])

C27_Witness ==
    /\ pc = "render"
    /\ Len(comicPanels) = 2
    /\ comicPanels[1].scene_number = 2
    /\ comicPanels[2].scene_number = 1
    /\ Failed(comicPanels[1])
    /\ Pending(comicPanels[2])
    /\ Len(callResults) = 1

\* C28: the progress snapshot that counts panel k (current panel k, the
\* percentage including the share of panel k) is published only when the
\* image call of array position k has ended; so a percentage of 100 is
\* reported only when no record is pending.
C28_ProgressAfterAttempt ==
    /\ (Rendering \/ pc = "complete") => progress.currentPanel <= Len(callResults)
    /\ (progress # NoProgress /\ progress.num = 100 * progress.den) =>
          \A k \in 1..Len(comicPanels) : ~Pending(comicPanels[k])

\* C29: of a response whose entries are objects the decomposition call
\* returns one panel spec per entry; an entry without scene_number is
\* numbered by its 1-based position and a numbered entry keeps its number;
\* and with captions included an entry whose dialogues are missing or not a
\* list gets the empty list.
C29_PostParseRepair ==
    (HeardArray /\ \A k \in 1..Len(decomposed.response.scenes) :
                      decomposed.response.scenes[k].kind = "object")
        => /\ decomposed.outcome = "returned"
           /\ Len(decomposed.produced) = Len(decomposed.response.scenes)
           /\ \A k \in 1..Len(decomposed.produced) :
                 /\ decomposed.produced[k].scene_number =
                      (IF decomposed.response.scenes[k].scene_number = 0
                       THEN k
                       ELSE decomposed.response.scenes[k].scene_number)
                 /\ (options.includeCaptions
                        /\ ~IsArray(decomposed.response.scenes[k].dialogues))
                       => decomposed.produced[k].dialogues = <<>>

\* C30: the error path that clears the panel set is taken only from the
\* pre-pass or the decomposition step, never from the image loop; the run it
\* ends has issued no image request, and after it the panel set is empty
\* and the progress is cleared.
C30_AbortBeforeRendering ==
    [][ (pc # "aborted" /\ pc' = "aborted") =>
            /\ pc \in {"prepass", "decompose"}
            /\ imageRequests' = <<>>
            /\ callResults' = <<>>
            /\ lastRequest' = NoRequest
            /\ comicPanels' = <<>>
            /\ progress' = NoProgress
            /\ Len(error') = 1 ]_vars

C30_Witness ==
    /\ pc = "aborted"
    /\ app = "B"
    /\ decomposed.outcome = "threw"
    /\ error = <<<<"AI response did not contain a valid scenes array.">>>>
    /\ comicPanels = <<>>
    /\ progress = NoProgress
    /\ imageRequests = <<>>

\* C31: under the gating of the form at most one run is active: a run starts
\* only while the loading flag is false and sets it, the flag is true as
\* long as the run has not reached Complete or the error-terminal state, and
\* it falls only at or after that state.
C31_SingleActiveRun ==
    /\ [](~Idle => isLoading)
    /\ [](timers > 0 => isLoading)
    /\ [][ (Idle /\ pc' \in {"prepass", "decompose"}) =>
              ~isLoading /\ isLoading' ]_vars
    /\ [][ (isLoading /\ ~isLoading') => pc' \in {"complete", "aborted"} ]_vars

C31_Witness ==
    /\ pc = "complete"
    /\ isLoading
    /\ timers = 1
    /\ Len(comicPanels) = 2

\* s is an initial segment of t.
IsPrefix(s, t) == Len(s) <= Len(t) /\ SubSeq(t, 1, Len(s)) = s

\* C32: the message log only grows during a run: from the head of the image
\* loop to Complete every step leaves the lines already in the log in
\* place, in order, whatever the user does in between (Dismiss included).
C32_LogOnlyGrows ==
    [][ (Rendering /\ pc' \in {"render", "await_image", "complete"})
            => IsPrefix(error, error') ]_vars

\* A step in which an attempt of the open backend's decomposition ends: its
\* request has been answered or has failed.
TextAttemptStep ==
    /\ pc = "decompose"
    /\ options.generationService = POLLINATIONS
    /\ decomposed'.requests = decomposed.requests + 1

TextRequestBound == decomposed'.requests <= 3

\* The response of the attempt holds a non-empty array: the call returns,
\* with one mapped scene per entry.
StopsAtFirstArray ==
    decomposed'.prompts # <<>> =>
        /\ pc' = "render"
        /\ Len(decomposed'.produced) = Len(decomposed'.prompts)
        /\ scenePrompts' = decomposed'.produced

\* The call ends on an attempt without such an array: it was the third, and
\* the call returns the empty list.
EmptyAfterThree ==
    (decomposed'.prompts = <<>> /\ pc' # "decompose") =>
        /\ decomposed'.requests = 3
        /\ pc' = "render"
        /\ decomposed'.produced = <<>>

\* C33: the decomposition of the open backend issues at most 3 text requests
\* per invocation; the attempt whose response holds a non-empty array ends
\* the call, which returns the mapped scenes of that array; the call returns
\* the empty list, without throwing, only after its third failed attempt.
C33_TextRetryLoop ==
    [][ TextAttemptStep =>
            /\ TextRequestBound
            /\ StopsAtFirstArray
            /\ EmptyAfterThree ]_vars

\* C34: the backoff between the attempts of an image call is linear: nothing
\* is awaited before the first attempt, and k times the base delay before
\* retry k, so that each retry waits longer than the one before it.
C34_LinearBackoff ==
    /\ BaseDelay > 0
    /\ pc = "await_image" =>
          /\ attempt \in 0..2
          /\ waited = attempt * BaseDelay

C34_Witness ==
    /\ pc = "await_image"
    /\ attempt = 2
    /\ waited = 2 * BaseDelay
    /\ imageRequests[i + 1] = 3

\* The pixel pair and the ratio token of an aspect ratio: square 1024x1024
\* and 1:1, portrait 1024x1792 and 9:16, landscape 1792x1024 and 16:9, and
\* the square values for any other value.
FixedPair(ar) ==
    CASE ar = "PORTRAIT" -> "1024x1792"
      [] ar = "LANDSCAPE" -> "1792x1024"
      [] OTHER -> "1024x1024"

FixedToken(ar) ==
    CASE ar = "PORTRAIT" -> "9:16"
      [] ar = "LANDSCAPE" -> "16:9"
      [] OTHER -> "1:1"

\* C35: every image request carries the pixel pair (open backend) or the
\* ratio token (structured backend) that the fixed mapping gives for the
\* aspect ratio of the run, a value outside the three included.
C35_AspectRatioMapping ==
    lastRequest # NoRequest =>
        lastRequest.size = IF options.generationService = GEMINI
                           THEN FixedToken(options.aspectRatio)
                           ELSE FixedPair(options.aspectRatio)

\* What a PanelRecord holds besides its image.
PanelSpecOf(record) ==
    [ scene_number |-> record.scene_number, image_prompt |-> record.image_prompt,
      caption |-> record.caption, dialogues |-> record.dialogues ]

\* C36: rendering changes only image states: from the publication of the
\* pending records to Complete there is one PanelRecord per panel spec, with
\* the scene number, image prompt, caption and dialogues of that spec, and a
\* step of the image loop changes, of the application state, nothing but the
\* image fields, the progress and the message log.
C36_RenderingFrame ==
    /\ [](pc \in {"render", "await_image", "complete"} =>
            /\ Len(comicPanels) = Len(scenePrompts)
            /\ \A k \in 1..Len(scenePrompts) :
                   PanelSpecOf(comicPanels[k]) = PanelSpecOf(scenePrompts[k]))
    /\ [][ Rendering =>
              /\ pc' \in {"render", "await_image", "complete"}
              /\ scenePrompts' = scenePrompts
              /\ isLoading' = isLoading
              /\ apiKey' = apiKey
              /\ options' = options
              /\ \A k \in 1..Len(comicPanels) :
                     comicPanels'[k] # comicPanels[k] =>
                         /\ comicPanels[k].scene_number = panel.scene_number
                         /\ comicPanels'[k] =
                               [comicPanels[k] EXCEPT !.imageUrl = comicPanels'[k].imageUrl]
            ]_vars

C36_Witness ==
    /\ pc = "complete"
    /\ Len(comicPanels) = 2
    /\ Resolved(comicPanels[1])
    /\ Failed(comicPanels[2])
    /\ comicPanels[2].caption = "A caption"
    /\ comicPanels[2].dialogues = <<"Zara: hi">>
    /\ comicPanels[1].scene_number # comicPanels[2].scene_number

\* C37: when a run reaches Complete no PanelRecord is pending: every record
\* of the published list is resolved or failed, whatever panel list the
\* decomposition returned (the fallback panel and lists with duplicate scene
\* numbers included).
C37_NoPendingAtComplete ==
    pc = "complete" =>
        /\ comicPanels # <<>>
        /\ Len(comicPanels) = Len(scenePrompts)
        /\ \A k \in 1..Len(comicPanels) :
               /\ ~Pending(comicPanels[k])
               /\ Resolved(comicPanels[k]) \/ Failed(comicPanels[k])

C37_Witness ==
    /\ pc = "complete"
    /\ Len(scenePrompts) = 2
    /\ ~DistinctSceneNumbers(scenePrompts)
    /\ callResults[1].failed
    /\ ~callResults[2].failed
    /\ \A k \in 1..2 : Resolved(comicPanels[k])

C37_FallbackWitness ==
    /\ pc = "complete"
    /\ scenePrompts = <<FallbackPanel(options)>>
    /\ error = <<FallbackWarning>>
    /\ Resolved(comicPanels[1])

\* C38: a submission rejected for a missing credential changes only the
\* error message: the step that sets the credential message leaves the panel
\* set, the progress snapshot and the loading flag as they were and starts
\* no run, so the panels of a completed run stay in the output.
C38_RejectionFrame ==
    [][ (error' # error /\ error' = <<CredentialMessage(app)>>) =>
            /\ \E opts \in StoryOptions : CredentialMissing(app, opts, apiKey)
            /\ comicPanels' = comicPanels
            /\ progress' = progress
            /\ isLoading' = isLoading
            /\ timers' = timers
            /\ pc' = pc
            /\ decomposed' = decomposed
            /\ imageRequests' = imageRequests ]_vars

C38_Witness ==
    /\ error = <<CredentialMessage(app)>>
    /\ pc = "complete"
    /\ ~isLoading
    /\ Len(comicPanels) = 2
    /\ \A k \in 1..2 : Resolved(comicPanels[k])
    /\ progress = CompleteProgress(2)

====
